---- MODULE Spec2Model ----
(***************************************************************************)
(* Model of crates/editor_core: the uniform-grid spatial index             *)
(* (spatial_index.rs), the camera (camera.rs) and the engine facade        *)
(* (lib.rs).                                                               *)
(*                                                                         *)
(* World coordinates are f32 in the source.  The model draws them from     *)
(* small sets of integers, on which the f32 operations used by the index   *)
(* (comparison, division by 256.0, floor) are exact.                       *)
(***************************************************************************)
EXTENDS Integers, Sequences, FiniteSets, TLC

\* ---------------------------------------------------------------- bounds

\* Handles are 1..MaxHandle (u32 in the source).
MaxHandle == 2

Handles == 1..MaxHandle

\* The z_index values a host passes (i32 in the source): two layers, so that
\* both ties and strict orders occur.
ZIndices == {0, 1}

\* ------------------------------------------------------ program constants

\* const GRID_CELL_SIZE: f32 = 256.0
GRID_CELL_SIZE == 256

\* ------------------------------------------------------------- input sets

Rect(a, b, c, d) == [min_x |-> a, min_y |-> b, max_x |-> c, max_y |-> d]

\* The rectangles a host passes to upsert.  The code validates nothing, so
\* the set holds one with negative coordinates that spans four cells, one
\* that spans six cells and ends on a cell edge (the two touch in the point
\* (100, 100)), a zero-area rectangle on a cell corner inside the second,
\* and one with min_x > max_x.
Rects ==
  { Rect(-1, -1, 100, 100),
    Rect(100, 100, 512, 256),
    Rect(256, 256, 256, 256),
    Rect(300, 0, 100, 100) }

WellFormed(r) == r.min_x <= r.max_x /\ r.min_y <= r.max_y

\* Coordinates of the points that queries are asked at: inside, on the
\* edges of, and outside the rectangles above, and on cell edges.
Coords == {-1, 0, 100, 256, 300, 512}

Points == Coords \X Coords

\* Rectangles that query_rect is asked with (min <= max): the well-formed
\* ones above, one inside the first that touches the second, one over
\* every cell in use, and one that shares a cell with the first two and
\* meets neither.
QueryRects ==
  { r \in Rects : WellFormed(r) } \cup
  { Rect(50, 50, 100, 100), Rect(-1, -1, 512, 512), Rect(101, 0, 255, 99) }

\* ----------------------------------------------------------- spatial index
\* An index value is [nodes |-> ..., grid |-> ...]:
\*   nodes : a function from the live handles to NodeData
\*   grid  : a function from the materialised cells <<cx, cy>> to the
\*           sequence (Vec<u32>) of handles listed in the cell

NodeData(r, z) ==
  [min_x |-> r.min_x, min_y |-> r.min_y, max_x |-> r.max_x, max_y |-> r.max_y,
   z_index |-> z]

\* SpatialIndex::new
new_index == [nodes |-> <<>>, grid |-> <<>>]

\* (x / GRID_CELL_SIZE).floor() as i32, per axis
world_to_cell(x, y) == <<x \div GRID_CELL_SIZE, y \div GRID_CELL_SIZE>>

\* The cells of min_cell..=max_cell, rows (cy) outermost; empty when either
\* range is empty.
compute_cells(min_x, min_y, max_x, max_y) ==
  LET lo == world_to_cell(min_x, min_y)
      hi == world_to_cell(max_x, max_y)
      w  == hi[1] - lo[1] + 1
      h  == hi[2] - lo[2] + 1
  IN  IF w <= 0 \/ h <= 0
      THEN <<>>
      ELSE [k \in 1..(w * h) |-> <<lo[1] + ((k - 1) % w), lo[2] + ((k - 1) \div w)>>]

Without(f, k) == [x \in (DOMAIN f) \ {k} |-> f[x]]

With(f, k, v) == [x \in (DOMAIN f) \cup {k} |-> IF x = k THEN v ELSE f[x]]

\* Mutant of remove_from_cells: an emptied cell stays in the grid.
RECURSIVE remove_keeps_empty_cells(_, _, _)
remove_keeps_empty_cells(grid, cells, handle) ==
  IF cells = <<>>
  THEN grid
  ELSE LET cell == Head(cells)
           g1 == IF cell \in DOMAIN grid
                 THEN With(grid, cell, SelectSeq(grid[cell], LAMBDA h : h # handle))
                 ELSE grid
       IN  remove_keeps_empty_cells(g1, Tail(cells), handle)

\* for cell in cells { handles.retain(|&h| h != handle); evict if empty }
RECURSIVE remove_from_cells(_, _, _)
remove_from_cells(grid, cells, handle) ==
  IF cells = <<>>
  THEN grid
  ELSE LET cell == Head(cells)
           g1 == IF cell \in DOMAIN grid
                 THEN LET handles == SelectSeq(grid[cell], LAMBDA h : h # handle)
                      IN  IF handles = <<>>
                          THEN Without(grid, cell)
                          ELSE With(grid, cell, handles)
                 ELSE grid
       IN  remove_from_cells(g1, Tail(cells), handle)

\* Mutant of remove: a handle that is not live gets a default entry.
remove_or_default(self, handle) ==
  IF handle \in DOMAIN self.nodes
  THEN LET node_data == self.nodes[handle]
           cells == compute_cells(node_data.min_x, node_data.min_y,
                                  node_data.max_x, node_data.max_y)
       IN  [nodes |-> Without(self.nodes, handle),
            grid  |-> remove_from_cells(self.grid, cells, handle)]
  ELSE [nodes |-> With(self.nodes, handle, NodeData(Rect(0, 0, 0, 0), 0)),
        grid  |-> self.grid]

\* Mutant of remove: the cells are cleaned and the node stays in the table.
remove_keeps_node(self, handle) ==
  IF handle \in DOMAIN self.nodes
  THEN LET node_data == self.nodes[handle]
           cells == compute_cells(node_data.min_x, node_data.min_y,
                                  node_data.max_x, node_data.max_y)
       IN  [nodes |-> self.nodes,
            grid  |-> remove_from_cells(self.grid, cells, handle)]
  ELSE self

\* SpatialIndex::remove
remove(self, handle) ==
  IF handle \in DOMAIN self.nodes
  THEN LET node_data == self.nodes[handle]
           cells == compute_cells(node_data.min_x, node_data.min_y,
                                  node_data.max_x, node_data.max_y)
       IN  [nodes |-> Without(self.nodes, handle),
            grid  |-> remove_from_cells(self.grid, cells, handle)]
  ELSE self

\* for cell in cells { self.grid.entry(cell).or_insert_with(Vec::new).push(handle) }
RECURSIVE add_to_cells(_, _, _)
add_to_cells(grid, cells, handle) ==
  IF cells = <<>>
  THEN grid
  ELSE LET cell == Head(cells)
           handles == IF cell \in DOMAIN grid THEN grid[cell] ELSE <<>>
       IN  add_to_cells(With(grid, cell, Append(handles, handle)), Tail(cells), handle)

\* Mutant of upsert: the old entry is not removed first.
upsert_without_remove(self, handle, r, z_index) ==
  LET cells == compute_cells(r.min_x, r.min_y, r.max_x, r.max_y)
  IN  [nodes |-> With(self.nodes, handle, NodeData(r, z_index)),
       grid  |-> add_to_cells(self.grid, cells, handle)]

\* Mutant of upsert: an existing entry of the node table is kept
\* (entry().or_insert() in place of insert()).
upsert_or_insert(self, handle, r, z_index) ==
  LET s1 == IF handle \in DOMAIN self.nodes THEN remove(self, handle) ELSE self
      cells == compute_cells(r.min_x, r.min_y, r.max_x, r.max_y)
      data == IF handle \in DOMAIN self.nodes THEN self.nodes[handle]
              ELSE NodeData(r, z_index)
  IN  [nodes |-> With(s1.nodes, handle, data),
       grid  |-> add_to_cells(s1.grid, cells, handle)]

\* SpatialIndex::upsert
upsert(self, handle, r, z_index) ==
  LET s1 == IF handle \in DOMAIN self.nodes THEN remove(self, handle) ELSE self
      cells == compute_cells(r.min_x, r.min_y, r.max_x, r.max_y)
  IN  [nodes |-> With(s1.nodes, handle, NodeData(r, z_index)),
       grid  |-> add_to_cells(s1.grid, cells, handle)]

\* SpatialIndex::clear
index_clear(self) == [nodes |-> <<>>, grid |-> <<>>]

\* SpatialIndex::len
len(self) == Cardinality(DOMAIN self.nodes)

\* SpatialIndex::get_bounds; None is <<>>
get_bounds(self, handle) ==
  IF handle \in DOMAIN self.nodes
  THEN LET n == self.nodes[handle] IN <<n.min_x, n.min_y, n.max_x, n.max_y>>
  ELSE <<>>

\* Mutant of sort_by_z_desc: an unstable sort, a hit goes in front of the
\* hits of equal z.
RECURSIVE sort_ties_reversed(_)
sort_ties_reversed(hits) ==
  IF hits = <<>>
  THEN <<>>
  ELSE LET n == Len(hits)
           front == sort_ties_reversed(SubSeq(hits, 1, n - 1))
           x == hits[n]
           k == Cardinality({i \in 1..Len(front) : front[i][2] > x[2]})
       IN  SubSeq(front, 1, k) \o <<x>> \o SubSeq(front, k + 1, Len(front))

\* Mutant of sort_by_z_desc: the hits stay in cell-list order.
sort_forgotten(hits) == hits

\* hits.sort_by(|a, b| b.1.cmp(&a.1)): a stable sort, so a hit goes behind
\* every hit of greater or equal z that precedes it in the input.
RECURSIVE sort_by_z_desc(_)
sort_by_z_desc(hits) ==
  IF hits = <<>>
  THEN <<>>
  ELSE LET n == Len(hits)
           front == sort_by_z_desc(SubSeq(hits, 1, n - 1))
           x == hits[n]
           k == Cardinality({i \in 1..Len(front) : front[i][2] >= x[2]})
       IN  SubSeq(front, 1, k) \o <<x>> \o SubSeq(front, k + 1, Len(front))

\* Mutant of query_point: the rectangle is open at max_x and max_y.
query_point_open_at_max(self, x, y) ==
  LET cell == world_to_cell(x, y)
      handles == IF cell \in DOMAIN self.grid THEN self.grid[cell] ELSE <<>>
      inside(h) == /\ h \in DOMAIN self.nodes
                   /\ LET node == self.nodes[h]
                      IN  x >= node.min_x /\ x < node.max_x /\
                          y >= node.min_y /\ y < node.max_y
      found == SelectSeq(handles, inside)
      hits == [i \in 1..Len(found) |-> <<found[i], self.nodes[found[i]].z_index>>]
      sorted == sort_by_z_desc(hits)
  IN  [i \in 1..Len(sorted) |-> sorted[i][1]]

\* SpatialIndex::query_point
query_point(self, x, y) ==
  LET cell == world_to_cell(x, y)
      handles == IF cell \in DOMAIN self.grid THEN self.grid[cell] ELSE <<>>
      inside(h) == /\ h \in DOMAIN self.nodes
                   /\ LET node == self.nodes[h]
                      IN  x >= node.min_x /\ x <= node.max_x /\
                          y >= node.min_y /\ y <= node.max_y
      found == SelectSeq(handles, inside)
      hits == [i \in 1..Len(found) |-> <<found[i], self.nodes[found[i]].z_index>>]
      sorted == sort_by_z_desc(hits)
  IN  [i \in 1..Len(sorted) |-> sorted[i][1]]

\* Mutant of scan_handles: no set of seen handles.
RECURSIVE scan_handles_unseen(_, _, _, _)
scan_handles_unseen(self, handles, q, acc) ==
  IF handles = <<>>
  THEN acc
  ELSE LET handle == Head(handles)
           hit == /\ handle \in DOMAIN self.nodes
                  /\ LET node == self.nodes[handle]
                     IN  ~(\/ node.max_x < q.min_x
                           \/ node.min_x > q.max_x
                           \/ node.max_y < q.min_y
                           \/ node.min_y > q.max_y)
           a1 == [seen |-> acc.seen,
                  candidates |-> IF hit THEN Append(acc.candidates, handle)
                                 ELSE acc.candidates]
       IN  scan_handles_unseen(self, Tail(handles), q, a1)

\* The body of query_rect's loop over one cell's handles; acc is
\* [seen |-> the HashSet, candidates |-> the Vec].
RECURSIVE scan_handles(_, _, _, _)
scan_handles(self, handles, q, acc) ==
  IF handles = <<>>
  THEN acc
  ELSE LET handle == Head(handles)
           a1 == IF handle \in acc.seen
                 THEN acc
                 ELSE LET hit == /\ handle \in DOMAIN self.nodes
                                 /\ LET node == self.nodes[handle]
                                    IN  ~(\/ node.max_x < q.min_x
                                          \/ node.min_x > q.max_x
                                          \/ node.max_y < q.min_y
                                          \/ node.min_y > q.max_y)
                      IN  [seen |-> acc.seen \cup {handle},
                           candidates |-> IF hit THEN Append(acc.candidates, handle)
                                          ELSE acc.candidates]
       IN  scan_handles(self, Tail(handles), q, a1)

\* query_rect's loop over the cells
RECURSIVE scan_cells(_, _, _, _)
scan_cells(self, cells, q, acc) ==
  IF cells = <<>>
  THEN acc
  ELSE LET cell == Head(cells)
           a1 == IF cell \in DOMAIN self.grid
                 THEN scan_handles(self, self.grid[cell], q, acc)
                 ELSE acc
       IN  scan_cells(self, Tail(cells), q, a1)

\* SpatialIndex::query_rect
query_rect(self, min_x, min_y, max_x, max_y) ==
  LET cells == compute_cells(min_x, min_y, max_x, max_y)
      q == Rect(min_x, min_y, max_x, max_y)
  IN  scan_cells(self, cells, q, [seen |-> {}, candidates |-> <<>>]).candidates

\* SpatialIndex::query_near
query_near(self, x, y, radius) ==
  query_rect(self, x - radius, y - radius, x + radius, y + radius)

\* ------------------------------------------------------------------ camera

\* Camera::new
new_camera ==
  [zoom |-> 1, pan_x |-> 0, pan_y |-> 0, viewport_w |-> 800, viewport_h |-> 600,
   dpr |-> 1]

\* The cameras a host sets: the default one, which sees every rectangle
\* of FacadeRects, and two that see one of them each.
\* In each, viewport / 2.0 and centered / zoom are exact in f32 for the
\* screen points the model converts, so integer division models them.
Cameras ==
  { new_camera,
    [zoom |-> 2, pan_x |-> -150, pan_y |-> -100, viewport_w |-> 800, viewport_h |-> 600,
     dpr |-> 1],
    [zoom |-> 1, pan_x |-> 600, pan_y |-> 0, viewport_w |-> 800, viewport_h |-> 600,
     dpr |-> 2] }

\* Camera::screen_to_world
screen_to_world(cam, screen_x, screen_y) ==
  LET centered_x == screen_x - cam.viewport_w \div 2
      centered_y == screen_y - cam.viewport_h \div 2
      world_x == centered_x \div cam.zoom + cam.pan_x
      world_y == centered_y \div cam.zoom + cam.pan_y
  IN  <<world_x, world_y>>

\* Camera::get_visible_world_bounds
get_visible_world_bounds(cam) ==
  LET lo == screen_to_world(cam, 0, 0)
      hi == screen_to_world(cam, cam.viewport_w, cam.viewport_h)
  IN  <<lo[1], lo[2], hi[1], hi[2]>>

\* Camera::world_to_screen, for cameras and points in whole numbers
world_to_screen(cam, world_x, world_y) ==
  LET translated_x == world_x - cam.pan_x
      translated_y == world_y - cam.pan_y
      scaled_x == translated_x * cam.zoom
      scaled_y == translated_y * cam.zoom
      screen_x == scaled_x + cam.viewport_w \div 2
      screen_y == scaled_y + cam.viewport_h \div 2
  IN  <<screen_x, screen_y>>

\* EditorCore::query_rect
core_query_rect(core, min_x, min_y, max_x, max_y) ==
  query_rect(core.spatial_index, min_x, min_y, max_x, max_y)

\* EditorCore::query_near
core_query_near(core, world_x, world_y, radius) ==
  query_near(core.spatial_index, world_x, world_y, radius)

\* EditorCore::screen_to_world
core_screen_to_world(core, screen_x, screen_y) ==
  screen_to_world(core.camera, screen_x, screen_y)

\* EditorCore::world_to_screen
core_world_to_screen(core, world_x, world_y) ==
  world_to_screen(core.camera, world_x, world_y)

\* ------------------------------------------------------- f32 arithmetic
\* The camera's conversions are checked in f32.  A value v is held as the
\* integer v * One, so every value here is a multiple of 1/One.  Such a
\* value is an f32 exactly if it has at most 24 significant bits; an
\* operation computes the exact result and rounds it to the nearest f32,
\* ties to even, as IEEE 754 does.  The inputs are chosen so that exact
\* products and quotients are multiples of 1/One (ExactMul, ExactDiv), which
\* makes the arithmetic below that of the f32 operations bit for bit.

\* 1.0
One == 2^10

\* 2^24: an f32 has 24 significant bits.
Significand == 2^24

Abs(n) == IF n < 0 THEN -n ELSE n

\* The distance between neighbouring f32 values at magnitude n >= 0.
RECURSIVE f32_spacing(_)
f32_spacing(n) == IF n < Significand THEN 1 ELSE 2 * f32_spacing(n \div 2)

\* The f32 nearest to n, ties to even.
round_f32(n) ==
  LET a == Abs(n)
      q == f32_spacing(a)
      lo == (a \div q) * q
      rem == a - lo
      r == IF 2 * rem < q THEN lo
           ELSE IF 2 * rem > q THEN lo + q
           ELSE IF (lo \div q) % 2 = 0 THEN lo ELSE lo + q
  IN  IF n < 0 THEN -r ELSE r

\* a + b and a - b on f32
f32_add(a, b) == round_f32(a + b)

f32_sub(a, b) == round_f32(a - b)

\* The exact product a * b is a multiple of 1/One.
ExactMul(a, b) == ((Abs(a) % One) * Abs(b)) % One = 0

\* a * b on f32
f32_mul(a, b) ==
  LET m == (Abs(a) \div One) * Abs(b) + ((Abs(a) % One) * Abs(b)) \div One
  IN  round_f32(IF (a < 0) = (b < 0) THEN m ELSE -m)

\* The exact quotient a / b is a multiple of 1/One.
ExactDiv(a, b) == b # 0 /\ ((Abs(a) % Abs(b)) * One) % Abs(b) = 0

\* a / b on f32
f32_div(a, b) ==
  LET m == (Abs(a) \div Abs(b)) * One + ((Abs(a) % Abs(b)) * One) \div Abs(b)
  IN  round_f32(IF (a < 0) = (b < 0) THEN m ELSE -m)

\* Camera::screen_to_world on f32
screen_to_world_f32(cam, screen_x, screen_y) ==
  LET centered_x == f32_sub(screen_x, f32_div(cam.viewport_w, 2 * One))
      centered_y == f32_sub(screen_y, f32_div(cam.viewport_h, 2 * One))
      world_x == f32_add(f32_div(centered_x, cam.zoom), cam.pan_x)
      world_y == f32_add(f32_div(centered_y, cam.zoom), cam.pan_y)
  IN  <<world_x, world_y>>

\* Mutant of world_to_screen_f32: scales before it translates.
world_to_screen_scales_first(cam, world_x, world_y) ==
  LET scaled_x == f32_mul(world_x, cam.zoom)
      scaled_y == f32_mul(world_y, cam.zoom)
      translated_x == f32_sub(scaled_x, cam.pan_x)
      translated_y == f32_sub(scaled_y, cam.pan_y)
      screen_x == f32_add(translated_x, f32_div(cam.viewport_w, 2 * One))
      screen_y == f32_add(translated_y, f32_div(cam.viewport_h, 2 * One))
  IN  <<screen_x, screen_y>>

\* Camera::world_to_screen on f32
world_to_screen_f32(cam, world_x, world_y) ==
  LET translated_x == f32_sub(world_x, cam.pan_x)
      translated_y == f32_sub(world_y, cam.pan_y)
      scaled_x == f32_mul(translated_x, cam.zoom)
      scaled_y == f32_mul(translated_y, cam.zoom)
      screen_x == f32_add(scaled_x, f32_div(cam.viewport_w, 2 * One))
      screen_y == f32_add(scaled_y, f32_div(cam.viewport_h, 2 * One))
  IN  <<screen_x, screen_y>>

\* A camera state in f32.
CameraF32(zoom, pan_x, pan_y, viewport_w, viewport_h, dpr) ==
  [zoom |-> zoom, pan_x |-> pan_x, pan_y |-> pan_y,
   viewport_w |-> viewport_w, viewport_h |-> viewport_h, dpr |-> dpr]

\* Camera::new on f32
new_camera_f32 == CameraF32(One, 0, 0, 800 * One, 600 * One, One)

\* The camera states a host sets: the default one, the one of the source's
\* round-trip test (zoom 2, pan (100, 50)), zooms 1/2, 4, 1/1024 and 1024,
\* a mirrored view (zoom -1), and two views far from the origin.
CamerasF32 ==
  { new_camera_f32,
    CameraF32(2 * One, 100 * One, 50 * One, 800 * One, 600 * One, One),
    CameraF32(One \div 2, -300 * One, 0, 801 * One, 600 * One, 2 * One),
    CameraF32(4 * One, 10 * One + 1, 8000 * One, 1024 * One, 768 * One, One),
    CameraF32(1, 0, One, 800 * One, 600 * One, One),
    CameraF32(One * One, 0, 3, 800 * One, 600 * One, One),
    CameraF32(-One, 0, 100 * One, 800 * One, 600 * One, One),
    CameraF32(One, 100000 * One, 0, 800 * One, 600 * One, One),
    CameraF32(2 * One, -20000 * One, 1000000 * One, 800 * One, 600 * One, One) }

\* The screen coordinates a host passes: 0, 300, 400, 400 + 3/1024, 400.5,
\* 800 and 1000.
ScreenCoords ==
  {0, 300 * One, 400 * One, 400 * One + 3, 400 * One + One \div 2, 800 * One, 1000 * One}

\* ------------------------------------------------------------------ facade
\* An engine value is [spatial_index |-> ..., camera |-> ..., node_flags |-> ...].

\* The flag words a host passes: none, hidden, locked, and a reserved bit.
FlagValues == {0, 1, 2, 4}

\* The rectangles a host passes to upsert_node: those of Rects with an area.
FacadeRects == { r \in Rects : r.min_x < r.max_x /\ r.min_y < r.max_y }

\* a & b on u32
RECURSIVE bitand(_, _)
bitand(a, b) ==
  IF a = 0 \/ b = 0
  THEN 0
  ELSE (a % 2) * (b % 2) + 2 * bitand(a \div 2, b \div 2)

\* EditorCore::new
new_core == [spatial_index |-> new_index, camera |-> new_camera, node_flags |-> <<>>]

\* EditorCore::upsert_node
upsert_node(core, handle, r, z_index, flags) ==
  [core EXCEPT !.spatial_index = upsert(core.spatial_index, handle, r, z_index),
               !.node_flags = With(core.node_flags, handle, flags)]

\* Mutant of remove_node: the flag entry is left behind.
remove_node_keeps_flags(core, handle) ==
  [core EXCEPT !.spatial_index = remove(core.spatial_index, handle)]

\* EditorCore::remove_node
remove_node(core, handle) ==
  [core EXCEPT !.spatial_index = remove(core.spatial_index, handle),
               !.node_flags = Without(core.node_flags, handle)]

\* EditorCore::set_camera / Camera::set
set_camera(core, cam) == [core EXCEPT !.camera = cam]

\* Mutant of clear: the camera goes back to its defaults too.
clear_resets_camera(core) ==
  [core EXCEPT !.spatial_index = index_clear(core.spatial_index),
               !.node_flags = <<>>,
               !.camera = new_camera]

\* EditorCore::clear
clear(core) ==
  [core EXCEPT !.spatial_index = index_clear(core.spatial_index),
               !.node_flags = <<>>]

\* Mutant of cull_visible: hit_test_point's mask, locked nodes go too.
cull_visible_strips_locked(core) ==
  LET visible_bounds == get_visible_world_bounds(core.camera)
      visible == query_rect(core.spatial_index, visible_bounds[1], visible_bounds[2],
                            visible_bounds[3], visible_bounds[4])
      keep(handle) == IF handle \in DOMAIN core.node_flags
                      THEN bitand(core.node_flags[handle], 3) = 0
                      ELSE TRUE
  IN  SelectSeq(visible, keep)

\* EditorCore::cull_visible
cull_visible(core) ==
  LET visible_bounds == get_visible_world_bounds(core.camera)
      visible == query_rect(core.spatial_index, visible_bounds[1], visible_bounds[2],
                            visible_bounds[3], visible_bounds[4])
      keep(handle) == IF handle \in DOMAIN core.node_flags
                      THEN bitand(core.node_flags[handle], 1) = 0
                      ELSE TRUE
  IN  SelectSeq(visible, keep)

\* Mutant of hit_test_point: cull_visible's mask, locked nodes stay.
hit_test_point_strips_hidden_only(core, world_x, world_y) ==
  LET hits == query_point(core.spatial_index, world_x, world_y)
      keep(handle) == IF handle \in DOMAIN core.node_flags
                      THEN bitand(core.node_flags[handle], 1) = 0
                      ELSE TRUE
  IN  SelectSeq(hits, keep)

\* EditorCore::hit_test_point
hit_test_point(core, world_x, world_y) ==
  LET hits == query_point(core.spatial_index, world_x, world_y)
      keep(handle) == IF handle \in DOMAIN core.node_flags
                      THEN bitand(core.node_flags[handle], 3) = 0
                      ELSE TRUE
  IN  SelectSeq(hits, keep)

\* EditorCore::get_node_count
get_node_count(core) == len(core.spatial_index)

\* ------------------------------------------------------------ smart guides
\* Bounds are tuples <<min_x, min_y, max_x, max_y>>, as get_bounds returns
\* them.  The rectangles the guides are computed for have whole, even
\* coordinates below 2^24, so the f32 sums, differences and halves below
\* are exact.

\* struct NodeBounds
NodeBounds(bounds) == Rect(bounds[1], bounds[2], bounds[3], bounds[4])

left(n) == n.min_x

right(n) == n.max_x

top(n) == n.min_y

bottom(n) == n.max_y

center_x(n) == (n.min_x + n.max_x) \div 2

center_y(n) == (n.min_y + n.max_y) \div 2

width(n) == n.max_x - n.min_x

height(n) == n.max_y - n.min_y

EDGE_LEFT == 0

EDGE_RIGHT == 1

EDGE_TOP == 2

EDGE_BOTTOM == 3

CENTER_X == 4

CENTER_Y == 5

\* Mutant of check_alignment: a later match takes over the alignment type.
check_alignment_last_type(map, pos1, pos2, threshold, align_type) ==
  IF Abs(pos1 - pos2) < threshold
  THEN IF pos1 \in DOMAIN map
       THEN With(map, pos1, <<align_type, map[pos1][2] + 1>>)
       ELSE With(map, pos1, <<align_type, 1>>)
  ELSE map

\* check_alignment: the map is keyed by the bits of pos1 and holds
\* <<alignment type, count>>.
check_alignment(map, pos1, pos2, threshold, align_type) ==
  IF Abs(pos1 - pos2) < threshold
  THEN IF pos1 \in DOMAIN map
       THEN With(map, pos1, <<map[pos1][1], map[pos1][2] + 1>>)
       ELSE With(map, pos1, <<align_type, 1>>)
  ELSE map

\* The five checks of one sibling against the vertical alignments.
check_vertical(map, moving, node, threshold) ==
  LET m1 == check_alignment(map, left(moving), left(node), threshold, EDGE_LEFT)
      m2 == check_alignment(m1, right(moving), right(node), threshold, EDGE_RIGHT)
      m3 == check_alignment(m2, center_x(moving), center_x(node), threshold, CENTER_X)
      m4 == check_alignment(m3, left(moving), right(node), threshold, EDGE_LEFT)
  IN  check_alignment(m4, right(moving), left(node), threshold, EDGE_RIGHT)

\* The five checks of one sibling against the horizontal alignments.
check_horizontal(map, moving, node, threshold) ==
  LET m1 == check_alignment(map, top(moving), top(node), threshold, EDGE_TOP)
      m2 == check_alignment(m1, bottom(moving), bottom(node), threshold, EDGE_BOTTOM)
      m3 == check_alignment(m2, center_y(moving), center_y(node), threshold, CENTER_Y)
      m4 == check_alignment(m3, top(moving), bottom(node), threshold, EDGE_TOP)
  IN  check_alignment(m4, bottom(moving), top(node), threshold, EDGE_BOTTOM)

\* The loop over all_bounds; maps is <<vertical_alignments,
\* horizontal_alignments>>.
RECURSIVE alignment_maps(_, _, _, _)
alignment_maps(maps, moving, all_bounds, threshold) ==
  IF all_bounds = <<>>
  THEN maps
  ELSE LET node == NodeBounds(Head(all_bounds))
       IN  alignment_maps(<<check_vertical(maps[1], moving, node, threshold),
                            check_horizontal(maps[2], moving, node, threshold)>>,
                          moving, Tail(all_bounds), threshold)

AlignmentGuide(guide_type, position, alignment_type, node_count) ==
  [guide_type |-> guide_type, position |-> position,
   alignment_type |-> alignment_type, node_count |-> node_count]

\* smart_guides::calculate_alignment_guides.  The guides are pushed in the
\* iteration order of the two hash maps, which is unspecified: the result is
\* held as the set of the guides.
smart_guides_calculate_alignment_guides(moving_bounds, all_bounds, threshold) ==
  LET moving == NodeBounds(moving_bounds)
      maps == alignment_maps(<<<<>>, <<>>>>, moving, all_bounds, threshold)
  IN  { AlignmentGuide(0, k, maps[1][k][1], maps[1][k][2]) : k \in DOMAIN maps[1] }
        \cup
      { AlignmentGuide(1, k, maps[2][k][1], maps[2][k][2]) : k \in DOMAIN maps[2] }

\* map.entry(key).or_insert_with(Vec::new).push(v)
Pushed(map, key, v) ==
  With(map, key, IF key \in DOMAIN map THEN Append(map[key], v) ELSE <<v>>)

\* The body of the pair loop: node1 is all_bounds[i], node2 is
\* all_bounds[j], i < j; maps is <<horizontal_spacings, vertical_spacings>>,
\* keyed by the bits of the spacing.
record_spacings(maps, node1, node2) ==
  LET h == IF left(node2) > right(node1)
           THEN Pushed(maps[1], left(node2) - right(node1), <<node1, node2>>)
           ELSE maps[1]
      v == IF top(node2) > bottom(node1)
           THEN Pushed(maps[2], top(node2) - bottom(node1), <<node1, node2>>)
           ELSE maps[2]
  IN  <<h, v>>

\* for i in 0..len { for j in (i + 1)..len { ... } }  (indices from 1 here)
RECURSIVE pair_spacings(_, _, _, _)
pair_spacings(maps, all_bounds, i, j) ==
  IF i > Len(all_bounds)
  THEN maps
  ELSE IF j > Len(all_bounds)
       THEN pair_spacings(maps, all_bounds, i + 1, i + 2)
       ELSE pair_spacings(record_spacings(maps, NodeBounds(all_bounds[i]),
                                          NodeBounds(all_bounds[j])),
                          all_bounds, i, j + 1)

SpacingGuide(guide_type, from, to, spacing) ==
  [guide_type |-> guide_type,
   from_x |-> from.min_x, from_y |-> from.min_y,
   from_width |-> width(from), from_height |-> height(from),
   to_x |-> to.min_x, to_y |-> to.min_y,
   to_width |-> width(to), to_height |-> height(to),
   spacing |-> spacing]

\* Mutant of guide_if_matched: emits the guide without a matching pair.
guide_unmatched(spacings, guide_type, from, to, spacing) ==
  <<SpacingGuide(guide_type, from, to, spacing)>>

\* if let Some(matches) = spacings.get(&key) { if !matches.is_empty() { push } }
guide_if_matched(spacings, guide_type, from, to, spacing) ==
  IF spacing \in DOMAIN spacings /\ spacings[spacing] # <<>>
  THEN <<SpacingGuide(guide_type, from, to, spacing)>>
  ELSE <<>>

\* The guides one sibling adds: the horizontal one, then the vertical one.
sibling_guides(maps, moving, node) ==
  (IF left(node) > right(moving)
   THEN guide_if_matched(maps[1], 0, moving, node, left(node) - right(moving))
   ELSE IF left(moving) > right(node)
        THEN guide_if_matched(maps[1], 0, node, moving, left(moving) - right(node))
        ELSE <<>>)
  \o
  (IF top(node) > bottom(moving)
   THEN guide_if_matched(maps[2], 1, moving, node, top(node) - bottom(moving))
   ELSE IF top(moving) > bottom(node)
        THEN guide_if_matched(maps[2], 1, node, moving, top(moving) - bottom(node))
        ELSE <<>>)

\* The loop over all_bounds that matches the moving node's gaps.
RECURSIVE matched_guides(_, _, _)
matched_guides(maps, moving, all_bounds) ==
  IF all_bounds = <<>>
  THEN <<>>
  ELSE sibling_guides(maps, moving, NodeBounds(Head(all_bounds)))
         \o matched_guides(maps, moving, Tail(all_bounds))

\* smart_guides::calculate_spacing_guides
smart_guides_calculate_spacing_guides(moving_bounds, all_bounds) ==
  LET moving == NodeBounds(moving_bounds)
      maps == pair_spacings(<<<<>>, <<>>>>, all_bounds, 1, 2)
  IN  matched_guides(maps, moving, all_bounds)

\* if nearest.is_none() || distance < nearest.unwrap().1 { nearest = Some((node, distance)) }
nearer(nearest, node, distance) ==
  IF nearest = <<>> \/ distance < nearest[2]
  THEN <<node, distance>>
  ELSE nearest

\* Mutant of nearest_step: measures to siblings that contain the moving
\* node as well.
nearest_step_keeps_containers(nearest, moving, node) ==
  <<IF right(node) <= left(moving)
    THEN nearer(nearest[1], node, left(moving) - right(node)) ELSE nearest[1],
    IF left(node) >= right(moving)
    THEN nearer(nearest[2], node, left(node) - right(moving)) ELSE nearest[2],
    IF bottom(node) <= top(moving)
    THEN nearer(nearest[3], node, top(moving) - bottom(node)) ELSE nearest[3],
    IF top(node) >= bottom(moving)
    THEN nearer(nearest[4], node, top(node) - bottom(moving)) ELSE nearest[4]>>

\* The body of the nearest-sibling loop; nearest is <<nearest_left,
\* nearest_right, nearest_top, nearest_bottom>>, each <<>> (None) or
\* <<node, distance>>.
nearest_step(nearest, moving, node) ==
  IF /\ left(node) <= left(moving)
     /\ top(node) <= top(moving)
     /\ right(node) >= right(moving)
     /\ bottom(node) >= bottom(moving)
  THEN nearest
  ELSE <<IF right(node) <= left(moving)
         THEN nearer(nearest[1], node, left(moving) - right(node)) ELSE nearest[1],
         IF left(node) >= right(moving)
         THEN nearer(nearest[2], node, left(node) - right(moving)) ELSE nearest[2],
         IF bottom(node) <= top(moving)
         THEN nearer(nearest[3], node, top(moving) - bottom(node)) ELSE nearest[3],
         IF top(node) >= bottom(moving)
         THEN nearer(nearest[4], node, top(node) - bottom(moving)) ELSE nearest[4]>>

RECURSIVE nearest_siblings(_, _, _)
nearest_siblings(nearest, moving, all_bounds) ==
  IF all_bounds = <<>>
  THEN nearest
  ELSE nearest_siblings(nearest_step(nearest, moving, NodeBounds(Head(all_bounds))),
                        moving, Tail(all_bounds))

DistanceMeasurement(from_x, from_y, to_x, to_y, direction, distance) ==
  [from_x |-> from_x, from_y |-> from_y, to_x |-> to_x, to_y |-> to_y,
   direction |-> direction, distance |-> distance]

\* Mutant of parent_measurement: measures to the parent edge at distance 0
\* too.
parent_measurement_at_zero(from_x, from_y, to_x, to_y, direction, distance) ==
  IF distance >= 0
  THEN <<DistanceMeasurement(from_x, from_y, to_x, to_y, direction, distance)>>
  ELSE <<>>

\* if dist_to_parent > 0.0 { push }
parent_measurement(from_x, from_y, to_x, to_y, direction, distance) ==
  IF distance > 0
  THEN <<DistanceMeasurement(from_x, from_y, to_x, to_y, direction, distance)>>
  ELSE <<>>

\* smart_guides::calculate_distance_measurements; parent_bounds is <<>>
\* (None) or <<x, y, width, height>>.
smart_guides_calculate_distance_measurements(moving_bounds, all_bounds, parent_bounds) ==
  LET moving == NodeBounds(moving_bounds)
      nearest == nearest_siblings(<<<<>>, <<>>, <<>>, <<>>>>, moving, all_bounds)
      cy == center_y(moving)
      cx == center_x(moving)
      px == parent_bounds[1]
      py == parent_bounds[2]
      pwidth == parent_bounds[3]
      pheight == parent_bounds[4]
      l == IF nearest[1] # <<>>
           THEN <<DistanceMeasurement(left(moving), cy, right(nearest[1][1]), cy, 0,
                                      nearest[1][2])>>
           ELSE IF parent_bounds # <<>>
                THEN parent_measurement(left(moving), cy, px, cy, 0, left(moving) - px)
                ELSE <<>>
      r == IF nearest[2] # <<>>
           THEN <<DistanceMeasurement(right(moving), cy, left(nearest[2][1]), cy, 0,
                                      nearest[2][2])>>
           ELSE IF parent_bounds # <<>>
                THEN parent_measurement(right(moving), cy, px + pwidth, cy, 0,
                                        (px + pwidth) - right(moving))
                ELSE <<>>
      t == IF nearest[3] # <<>>
           THEN <<DistanceMeasurement(cx, top(moving), cx, bottom(nearest[3][1]), 1,
                                      nearest[3][2])>>
           ELSE IF parent_bounds # <<>>
                THEN parent_measurement(cx, top(moving), cx, py, 1, top(moving) - py)
                ELSE <<>>
      b == IF nearest[4] # <<>>
           THEN <<DistanceMeasurement(cx, bottom(moving), cx, top(nearest[4][1]), 1,
                                      nearest[4][2])>>
           ELSE IF parent_bounds # <<>>
                THEN parent_measurement(cx, bottom(moving), cx, py + pheight, 1,
                                        (py + pheight) - bottom(moving))
                ELSE <<>>
  IN  l \o r \o t \o b

\* Mutant of sibling_bounds: the moving handle is a sibling of itself.
RECURSIVE sibling_bounds_with_moving(_, _, _)
sibling_bounds_with_moving(core, moving_handle, visible_handles) ==
  IF visible_handles = <<>>
  THEN <<>>
  ELSE LET handle == Head(visible_handles)
           rest == sibling_bounds_with_moving(core, moving_handle, Tail(visible_handles))
       IN  IF get_bounds(core.spatial_index, handle) # <<>>
           THEN <<get_bounds(core.spatial_index, handle)>> \o rest
           ELSE rest

\* The bounds of the handles of visible_handles that are live and are not
\* moving_handle (the loop of the three facade methods below).
RECURSIVE sibling_bounds(_, _, _)
sibling_bounds(core, moving_handle, visible_handles) ==
  IF visible_handles = <<>>
  THEN <<>>
  ELSE LET handle == Head(visible_handles)
           rest == sibling_bounds(core, moving_handle, Tail(visible_handles))
       IN  IF handle # moving_handle /\ get_bounds(core.spatial_index, handle) # <<>>
           THEN <<get_bounds(core.spatial_index, handle)>> \o rest
           ELSE rest

\* EditorCore::calculate_alignment_guides
calculate_alignment_guides(core, moving_handle, visible_handles, threshold) ==
  IF get_bounds(core.spatial_index, moving_handle) = <<>>
  THEN {}
  ELSE smart_guides_calculate_alignment_guides(
         get_bounds(core.spatial_index, moving_handle),
         sibling_bounds(core, moving_handle, visible_handles), threshold)

\* EditorCore::calculate_spacing_guides
calculate_spacing_guides(core, moving_handle, visible_handles) ==
  IF get_bounds(core.spatial_index, moving_handle) = <<>>
  THEN <<>>
  ELSE smart_guides_calculate_spacing_guides(
         get_bounds(core.spatial_index, moving_handle),
         sibling_bounds(core, moving_handle, visible_handles))

\* EditorCore::calculate_distance_measurements; a parent component is <<>>
\* (None) or <<v>> (Some(v)).
calculate_distance_measurements(core, moving_handle, visible_handles, parent_x, parent_y, parent_width, parent_height) ==
  IF get_bounds(core.spatial_index, moving_handle) = <<>>
  THEN <<>>
  ELSE LET parent_bounds ==
             IF parent_x # <<>> /\ parent_y # <<>> /\ parent_width # <<>> /\
                parent_height # <<>>
             THEN <<parent_x[1], parent_y[1], parent_width[1], parent_height[1]>>
             ELSE <<>>
       IN  smart_guides_calculate_distance_measurements(
             get_bounds(core.spatial_index, moving_handle),
             sibling_bounds(core, moving_handle, visible_handles), parent_bounds)

\* ---------------------------------------------------------------- snapping
\* The points, thresholds, grid sizes and rectangles snapping is computed
\* for are whole numbers below 2^24 and the rectangles' coordinates are
\* even, so the f32 quotients, products, differences and halves below are
\* exact.

\* (a / b).round() for b > 0: to the nearest whole number, a half away from
\* zero.
f32_round_div(a, b) ==
  IF a >= 0 THEN (2 * a + b) \div (2 * b) ELSE -((2 * (-a) + b) \div (2 * b))

SnapResult(snapped, x, y, guide_count) ==
  [snapped |-> snapped, x |-> x, y |-> y, guide_count |-> guide_count]

\* Mutant of snap_x: the first match on the axis stays.
snap_x_first_wins(s, world_x, edge_x, snap_threshold) ==
  IF Abs(world_x - edge_x) < snap_threshold
  THEN [s EXCEPT !.x = IF s.x = world_x THEN edge_x ELSE s.x,
                 !.snapped = TRUE, !.guide_count = @ + 1]
  ELSE s

\* if (world_x - edge_x).abs() < snap_threshold { snapped_x = edge_x; ... }
snap_x(s, world_x, edge_x, snap_threshold) ==
  IF Abs(world_x - edge_x) < snap_threshold
  THEN [s EXCEPT !.x = edge_x, !.snapped = TRUE, !.guide_count = @ + 1]
  ELSE s

\* Mutant of snap_y: an edge at exactly snap_threshold matches too.
snap_y_inclusive(s, world_y, edge_y, snap_threshold) ==
  IF Abs(world_y - edge_y) <= snap_threshold
  THEN [s EXCEPT !.y = edge_y, !.snapped = TRUE, !.guide_count = @ + 1]
  ELSE s

\* if (world_y - edge_y).abs() < snap_threshold { snapped_y = edge_y; ... }
snap_y(s, world_y, edge_y, snap_threshold) ==
  IF Abs(world_y - edge_y) < snap_threshold
  THEN [s EXCEPT !.y = edge_y, !.snapped = TRUE, !.guide_count = @ + 1]
  ELSE s

\* The grid snapping block.
snap_to_grid(s, world_x, world_y, snap_threshold, grid_size) ==
  LET grid_x == f32_round_div(world_x, grid_size) * grid_size
      grid_y == f32_round_div(world_y, grid_size) * grid_size
  IN  snap_y(snap_x(s, world_x, grid_x, snap_threshold), world_y, grid_y, snap_threshold)

\* The body of the loop over the nearby handles: edges_x, then edges_y.
snap_to_node(s, bounds, world_x, world_y, snap_threshold) ==
  LET x1 == snap_x(s, world_x, bounds[1], snap_threshold)
      x2 == snap_x(x1, world_x, (bounds[1] + bounds[3]) \div 2, snap_threshold)
      x3 == snap_x(x2, world_x, bounds[3], snap_threshold)
      y1 == snap_y(x3, world_y, bounds[2], snap_threshold)
      y2 == snap_y(y1, world_y, (bounds[2] + bounds[4]) \div 2, snap_threshold)
  IN  snap_y(y2, world_y, bounds[4], snap_threshold)

\* The loop over the nearby handles.
RECURSIVE snap_to_nodes(_, _, _, _, _, _)
snap_to_nodes(s, core, nearby, world_x, world_y, snap_threshold) ==
  IF nearby = <<>>
  THEN s
  ELSE LET bounds == get_bounds(core.spatial_index, Head(nearby))
       IN  snap_to_nodes(IF bounds # <<>>
                         THEN snap_to_node(s, bounds, world_x, world_y, snap_threshold)
                         ELSE s,
                         core, Tail(nearby), world_x, world_y, snap_threshold)

\* EditorCore::snap_point
snap_point(core, world_x, world_y, snap_threshold, grid_size, enable_grid, enable_objects) ==
  LET s0 == SnapResult(FALSE, world_x, world_y, 0)
      s1 == IF enable_grid /\ grid_size > 0
            THEN snap_to_grid(s0, world_x, world_y, snap_threshold, grid_size)
            ELSE s0
  IN  IF enable_objects
      THEN snap_to_nodes(s1, core,
                         query_near(core.spatial_index, world_x, world_y, snap_threshold * 3),
                         world_x, world_y, snap_threshold)
      ELSE s1

\* ------------------------------------------------------------------- state

VARIABLES
  nodes,       \* SpatialIndex.nodes
  grid,        \* SpatialIndex.grid
  node_flags,  \* EditorCore.node_flags
  camera,      \* EditorCore.camera
  last,        \* history: the last operation (see Did)
  created      \* history: the live handles in the order their nodes were
               \* created (first upsert of a handle that was not live)

vars == <<nodes, grid, node_flags, camera, last, created>>

Index == [nodes |-> nodes, grid |-> grid]

Core == [spatial_index |-> Index, camera |-> camera, node_flags |-> node_flags]

None == <<>>

\* The record of an operation, taken in the state it is applied to:
\*   op, h       the operation and its handle (0 if it has none)
\*   arg, flags  the NodeData and flag word an upsert was given
\*   cnt         the node count before the operation
\*   live        whether h was live before the operation
\*   same        an upsert of a live handle with the NodeData it already has
\*   rep         an upsert that repeats the operation before it, argument
\*               for argument
\*   base        for a remove(h) that directly follows an upsert(h): the
\*               node count before that upsert; otherwise -1
Did(name, handle, data, f) ==
  [op    |-> name,
   h     |-> handle,
   arg   |-> data,
   flags |-> f,
   cnt   |-> len(Index),
   live  |-> handle \in DOMAIN nodes,
   same  |-> name = "upsert" /\ handle \in DOMAIN nodes /\ nodes[handle] = data,
   rep   |-> name = "upsert" /\ last.op = "upsert" /\ last.h = handle /\
             last.arg = data /\ last.flags = f,
   base  |-> IF name = "remove" /\ last.op = "upsert" /\ last.h = handle
             THEN last.cnt ELSE -1]

\* EditorCore::new / SpatialIndex::new
Init ==
  /\ nodes = new_core.spatial_index.nodes
  /\ grid = new_core.spatial_index.grid
  /\ node_flags = new_core.node_flags
  /\ camera = new_core.camera
  /\ last = [op |-> "new", h |-> 0, arg |-> None, flags |-> 0, cnt |-> 0,
             live |-> FALSE, same |-> FALSE, rep |-> FALSE, base |-> -1]
  /\ created = <<>>

CreatedAfterUpsert(handle) ==
  IF handle \in DOMAIN nodes THEN created ELSE Append(created, handle)

CreatedAfterRemove(handle) == SelectSeq(created, LAMBDA h : h # handle)

\* ---------------------------------------- the index used on its own

IndexUpsert ==
  \E handle \in Handles, r \in Rects, z \in ZIndices :
    \E s \in {upsert(Index, handle, r, z)} :
        /\ nodes' = s.nodes
        /\ grid' = s.grid
        /\ last' = Did("upsert", handle, NodeData(r, z), 0)
        /\ created' = CreatedAfterUpsert(handle)
        /\ UNCHANGED <<node_flags, camera>>

IndexRemove ==
  \E handle \in Handles :
    \E s \in {remove(Index, handle)} :
        /\ nodes' = s.nodes
        /\ grid' = s.grid
        /\ last' = Did("remove", handle, None, 0)
        /\ created' = CreatedAfterRemove(handle)
        /\ UNCHANGED <<node_flags, camera>>

IndexClear ==
  \E s \in {index_clear(Index)} :
    /\ nodes' = s.nodes
    /\ grid' = s.grid
    /\ last' = Did("clear", 0, None, 0)
    /\ created' = <<>>
    /\ UNCHANGED <<node_flags, camera>>

NextIndex == IndexUpsert \/ IndexRemove \/ IndexClear

SpecIndex == Init /\ [][NextIndex]_vars

\* ------------------------------------------- the camera used on its own

\* The record of a conversion: its argument (arg), its result (out) and,
\* for a world_to_screen applied to the result of a screen_to_world, the
\* screen point that conversion started from (from).
InitCamera ==
  /\ nodes = new_core.spatial_index.nodes
  /\ grid = new_core.spatial_index.grid
  /\ node_flags = new_core.node_flags
  /\ camera = new_camera_f32
  /\ last = [op |-> "new", arg |-> None, out |-> None, from |-> None]
  /\ created = <<>>

\* Camera::set
CameraSet ==
  \E cam \in CamerasF32 :
    /\ camera' = cam
    /\ last' = [op |-> "set", arg |-> None, out |-> None, from |-> None]
    /\ UNCHANGED <<nodes, grid, node_flags, created>>

\* Camera::screen_to_world, for the screen points whose quotient by the
\* zoom is a multiple of 1/One.
CameraScreenToWorld ==
  \E sx \in ScreenCoords, sy \in ScreenCoords :
    /\ ExactDiv(f32_sub(sx, f32_div(camera.viewport_w, 2 * One)), camera.zoom)
    /\ ExactDiv(f32_sub(sy, f32_div(camera.viewport_h, 2 * One)), camera.zoom)
    /\ last' = [op |-> "screen_to_world", arg |-> <<sx, sy>>,
                out |-> screen_to_world_f32(camera, sx, sy), from |-> None]
    /\ UNCHANGED <<nodes, grid, node_flags, camera, created>>

\* Camera::world_to_screen, applied to the world point the last
\* screen_to_world returned.
CameraWorldToScreen ==
  /\ last.op = "screen_to_world"
  /\ ExactMul(f32_sub(last.out[1], camera.pan_x), camera.zoom)
  /\ ExactMul(f32_sub(last.out[2], camera.pan_y), camera.zoom)
  /\ last' = [op |-> "world_to_screen", arg |-> last.out,
              out |-> world_to_screen_f32(camera, last.out[1], last.out[2]),
              from |-> last.arg]
  /\ UNCHANGED <<nodes, grid, node_flags, camera, created>>

NextCamera == CameraSet \/ CameraScreenToWorld \/ CameraWorldToScreen

SpecCamera == InitCamera /\ [][NextCamera]_vars

\* ---------------------------------------------------- the engine facade

Becomes(core) ==
  /\ nodes' = core.spatial_index.nodes
  /\ grid' = core.spatial_index.grid
  /\ node_flags' = core.node_flags
  /\ camera' = core.camera

UpsertNode ==
  \E handle \in Handles, r \in FacadeRects, z \in ZIndices, flags \in FlagValues :
    \E core \in {upsert_node(Core, handle, r, z, flags)} :
    /\ Becomes(core)
    /\ last' = Did("upsert", handle, NodeData(r, z), flags)
    /\ created' = CreatedAfterUpsert(handle)

RemoveNode ==
  \E handle \in Handles :
    \E core \in {remove_node(Core, handle)} :
    /\ Becomes(core)
    /\ last' = Did("remove", handle, None, 0)
    /\ created' = CreatedAfterRemove(handle)

SetCamera ==
  \E cam \in Cameras :
    \E core \in {set_camera(Core, cam)} :
    /\ Becomes(core)
    /\ last' = Did("set_camera", 0, None, 0)
    /\ UNCHANGED created

Clear ==
  \E core \in {clear(Core)} :
  /\ Becomes(core)
  /\ last' = Did("clear", 0, None, 0)
  /\ created' = <<>>

Next == UpsertNode \/ RemoveNode \/ SetCamera \/ Clear

Spec == Init /\ [][Next]_vars

\* ------------------------------------------------- vocabulary of the claims

\* The cells covered by rectangle r: floor(min/256)..floor(max/256) per axis.
CoveredCells(r) ==
  { <<cx, cy>> : cx \in (r.min_x \div 256)..(r.max_x \div 256),
                 cy \in (r.min_y \div 256)..(r.max_y \div 256) }

\* The number of times handle h is listed in seq.
Count(seq, h) == Cardinality({ i \in 1..Len(seq) : seq[i] = h })

Elems(seq) == { seq[i] : i \in 1..Len(seq) }

NoDuplicates(seq) == Cardinality(Elems(seq)) = Len(seq)

\* The list of cell c, materialised or not.
CellList(c) == IF c \in DOMAIN grid THEN grid[c] ELSE <<>>

\* The closed rectangle r contains the point (x, y).
Contains(r, x, y) ==
  r.min_x <= x /\ x <= r.max_x /\ r.min_y <= y /\ y <= r.max_y

Max(a, b) == IF a >= b THEN a ELSE b

Min(a, b) == IF a <= b THEN a ELSE b

\* The closed rectangles a and b have a point in common.
Intersects(a, b) ==
  /\ Max(a.min_x, b.min_x) <= Min(a.max_x, b.max_x)
  /\ Max(a.min_y, b.min_y) <= Min(a.max_y, b.max_y)

AllWellFormed == \A h \in DOMAIN nodes : WellFormed(nodes[h])

Live == DOMAIN nodes

\* ------------------------------------------------------------------ claims

\* C1: after any sequence of upsert, remove and clear, the grid is the index
\* derived from the node table: every live handle with min <= max is listed
\* exactly once in each cell its rectangle covers and in no other cell, and
\* no materialised cell is empty or lists a handle that is not live.
C1_GridIsDerivedFromNodes ==
  /\ \A c \in DOMAIN grid :
       /\ grid[c] # <<>>
       /\ Elems(grid[c]) \subseteq Live
  /\ \A h \in Live :
       WellFormed(nodes[h]) =>
         \A c \in (DOMAIN grid) \cup CoveredCells(nodes[h]) :
           Count(CellList(c), h) = IF c \in CoveredCells(nodes[h]) THEN 1 ELSE 0

\* A remove of a live handle has evicted its cells, and the grid that is
\* left is the six cells of the other node.
C1_Witness ==
  /\ last.op = "remove" /\ last.live /\ last.cnt = 2
  /\ \E h \in Live :
       /\ Cardinality(CoveredCells(nodes[h])) = 6
       /\ DOMAIN grid = CoveredCells(nodes[h])

\* C2: after every facade mutation the flag side-table and the node table
\* have the same key set.
C2_FlagKeysAreNodeKeys == DOMAIN node_flags = DOMAIN nodes

\* A remove_node of one of two live handles has acted.
C2_Witness ==
  /\ last.op = "remove" /\ last.live /\ last.cnt = 2
  /\ Cardinality(DOMAIN node_flags) = 1

\* C3: when every rectangle has min <= max, query_point(x, y) returns
\* exactly the live handles whose closed rectangle contains (x, y), each
\* once.
C3_QueryPointIsContainment ==
  AllWellFormed =>
    \A p \in Points :
      LET q == query_point(Index, p[1], p[2])
      IN  /\ NoDuplicates(q)
          /\ Elems(q) = { h \in Live : Contains(nodes[h], p[1], p[2]) }

\* The zero-area rectangle is found at its point, together with the
\* rectangle around it, and that one is found at its max corner, which lies
\* on a cell edge.
C3_Witness ==
  /\ AllWellFormed
  /\ Len(query_point(Index, 256, 256)) = 2
  /\ Len(query_point(Index, 512, 256)) = 1
  /\ \E h \in Live : nodes[h].min_x = nodes[h].max_x

C5_QueryPointTopmostFirst ==
  \A p \in Points :
    LET q == query_point(Index, p[1], p[2])
    IN  \A i \in 1..Len(q) : \A j \in 1..Len(q) :
          i < j => nodes[q[i]].z_index >= nodes[q[j]].z_index

\* A point where the cell lists the lower node first and the query returns
\* the higher one first.
C5_Witness ==
  \E p \in Points :
    LET q == query_point(Index, p[1], p[2])
        c == CellList(world_to_cell(p[1], p[2]))
    IN  /\ Len(q) = 2
        /\ c = <<q[2], q[1]>>
        /\ nodes[q[1]].z_index > nodes[q[2]].z_index

ArgRect(data) == Rect(data.min_x, data.min_y, data.max_x, data.max_y)

\* a is returned in front of b.
InFront(seq, a, b) ==
  \E i \in 1..Len(seq) : \E j \in 1..Len(seq) : i < j /\ seq[i] = a /\ seq[j] = b

\* Handles a and b tie: both are live and have the same z_index.
Tie(a, b) == a # b /\ nodes[a].z_index = nodes[b].z_index

\* C6 as claimed: handles of equal z_index are returned in the order in
\* which their nodes were created, also after a later upsert of a live
\* handle.
C6_TiesInCreationOrder ==
  \A p \in Points :
    LET q == query_point(Index, p[1], p[2])
    IN  \A a \in Elems(q) : \A b \in Elems(q) :
          (Tie(a, b) /\ InFront(q, a, b)) => InFront(created, a, b)

\* C6 as amended: ties are returned in the order of the handle list of the
\* query point's cell.  That is the order of creation only until a handle is
\* upserted again: an upsert, of a live handle too, appends the handle to
\* its cells' lists, and it is then returned behind every handle it ties
\* with.
C6_TiesInCellListOrder ==
  \A p \in Points :
    LET q == query_point(Index, p[1], p[2])
        c == CellList(world_to_cell(p[1], p[2]))
    IN  /\ \A a \in Elems(q) : \A b \in Elems(q) :
             (Tie(a, b) /\ InFront(q, a, b)) => InFront(c, a, b)
        /\ last.op = "upsert" =>
             \A b \in Elems(q) : Tie(last.h, b) => ~InFront(q, last.h, b)

\* The node created first has been upserted again and is now returned behind
\* the node it ties with.
C6_Witness ==
  /\ last.op = "upsert" /\ last.live
  /\ \E p \in Points :
       LET q == query_point(Index, p[1], p[2])
       IN  /\ Len(q) = 2
           /\ Tie(q[1], q[2])
           /\ q[2] = last.h
           /\ created = <<q[2], q[1]>>

\* C7 as claimed: upsert(h) followed by remove(h) leaves the node count at
\* its value before the upsert, and query_point returns h for no point.
C7_UpsertRemoveRestoresCount ==
  (last.op = "remove" /\ last.base # -1) =>
    /\ len(Index) = last.base
    /\ \A p \in Points : last.h \notin Elems(query_point(Index, p[1], p[2]))

\* C7 as amended: after upsert(h) followed by remove(h) the node count is
\* its value before the upsert if h was not live then, and one less if it
\* was; query_point returns h for no point.  (last.cnt is the count after
\* the upsert: it equals last.base exactly when h was live before it.)
C7_UpsertRemoveCount ==
  (last.op = "remove" /\ last.base # -1) =>
    /\ len(Index) = IF last.cnt = last.base THEN last.base - 1 ELSE last.base
    /\ \A p \in Points : last.h \notin Elems(query_point(Index, p[1], p[2]))

\* upsert(h) of a handle that was live, then remove(h), with another node
\* left.
C7_Witness ==
  /\ last.op = "remove" /\ last.base = 2 /\ last.cnt = 2
  /\ len(Index) = 1

\* C8: an upsert that repeats the upsert before it (same handle, rectangle
\* and z_index) changes neither the node table (count, bounds, z_index) nor
\* any cell list.  Every query is a function of these two, so it returns
\* what it returned after the first upsert.
C8_RepeatedUpsertIsIdempotent ==
  [][ last'.rep =>
        /\ nodes' = nodes
        /\ grid' = grid
        /\ Cardinality(DOMAIN nodes') = Cardinality(DOMAIN nodes)
        /\ \A c \in CoveredCells(ArgRect(last'.arg)) :
             WellFormed(ArgRect(last'.arg)) =>
               (c \in DOMAIN grid' /\ Count(grid'[c], last'.h) = 1) ]_vars

\* A repeated upsert of a node of several cells that shares a cell with
\* another node.
C8_Witness ==
  /\ last.rep
  /\ Cardinality(Live) = 2
  /\ Cardinality(DOMAIN grid) = 9

Hidden(h) == h \in DOMAIN node_flags /\ node_flags[h] % 2 = 1

\* The camera's visible world bounds.
VisibleRect ==
  LET lo == screen_to_world(camera, 0, 0)
      hi == screen_to_world(camera, camera.viewport_w, camera.viewport_h)
  IN  Rect(lo[1], lo[2], hi[1], hi[2])

HiddenOrLocked(h) == h \in DOMAIN node_flags /\ node_flags[h] % 4 # 0

\* C11: hit_test_point(x, y) is the subsequence of query_point(x, y) of the
\* handles that are neither hidden nor locked: no hidden or locked handle is
\* returned, every other containing node is, and the order stays
\* topmost-first.
C11_HitTestStripsHiddenAndLocked ==
  \A p \in Points :
    LET all == query_point(Index, p[1], p[2])
        hit == hit_test_point(Core, p[1], p[2])
    IN  /\ hit = SelectSeq(all, LAMBDA h : ~HiddenOrLocked(h))
        /\ Elems(hit) = { h \in Live : Contains(nodes[h], p[1], p[2]) /\ ~HiddenOrLocked(h) }
        /\ \A h \in Elems(all) : node_flags[h] \in {0, 4} <=> h \in Elems(hit)
        /\ \A i \in 1..Len(hit) : \A j \in 1..Len(hit) :
             i < j => nodes[hit[i]].z_index >= nodes[hit[j]].z_index

\* A point in a locked node and in a node with only a reserved bit set: only
\* the second is hit.
C11_Witness ==
  \E a \in Live : \E b \in Live :
    /\ node_flags[a] = 2 /\ node_flags[b] = 4
    /\ \E p \in Points :
         /\ Len(query_point(Index, p[1], p[2])) = 2
         /\ hit_test_point(Core, p[1], p[2]) = <<b>>

\* |a - b| < 1e-3
Within(a, b) == Abs(a - b) * 1000 < One

\* C12 as claimed: for every camera state with finite non-zero zoom and
\* every screen point, world_to_screen(screen_to_world(sx, sy)) is (sx, sy)
\* within 1e-3; with the default camera screen_to_world(400, 300) is (0, 0).
C12_RoundTripWithinTolerance ==
  /\ last.op = "world_to_screen" =>
       (Within(last.out[1], last.from[1]) /\ Within(last.out[2], last.from[2]))
  /\ (last.op = "screen_to_world" /\ camera = new_camera_f32 /\
      last.arg = <<400 * One, 300 * One>>) => last.out = <<0, 0>>

\* |w * z|, exactly (rounded down to a multiple of 1/One).
Scaled(w, z) == (Abs(w) \div One) * Abs(z) + ((Abs(w) % One) * Abs(z)) \div One

\* The round trip on one axis stays where f32 resolves it: the screen
\* coordinate s and its offset from the viewport centre are within 2048,
\* and the world coordinate w, scaled by the zoom, is below 4096.
Resolved(s, viewport, w) ==
  /\ Abs(s) <= 2048 * One
  /\ Abs(s - f32_div(viewport, 2 * One)) <= 2048 * One
  /\ Scaled(w, camera.zoom) < 4096 * One

\* C12 as amended: for a camera state with finite non-zero zoom, on each
\* axis world_to_screen(screen_to_world(s)) is s within 1e-3 when the screen
\* coordinate and its offset from the viewport centre are at most 2048 in
\* magnitude and |zoom * world| < 4096; with the default camera
\* screen_to_world(400, 300) is (0, 0).  Farther from the origin the world
\* coordinate is rounded by more than 1e-3 / zoom.
C12_RoundTripWithinToleranceWhereResolved ==
  /\ last.op = "world_to_screen" =>
       /\ Resolved(last.from[1], camera.viewport_w, last.arg[1])
            => Within(last.out[1], last.from[1])
       /\ Resolved(last.from[2], camera.viewport_h, last.arg[2])
            => Within(last.out[2], last.from[2])
  /\ (last.op = "screen_to_world" /\ camera = new_camera_f32 /\
      last.arg = <<400 * One, 300 * One>>) => last.out = <<0, 0>>

\* A round trip of a screen point with fractions, under a camera with zoom
\* 1/2 and a pan, that is resolved on both axes and lands on a world point
\* away from the origin.
C12_Witness ==
  /\ last.op = "world_to_screen"
  /\ camera.zoom = One \div 2 /\ camera.pan_x # 0
  /\ last.from = <<400 * One + 3, 400 * One + One \div 2>>
  /\ Resolved(last.from[1], camera.viewport_w, last.arg[1])
  /\ Resolved(last.from[2], camera.viewport_h, last.arg[2])
  /\ last.arg[1] # 0 /\ last.arg[2] # 0
  /\ last.out = last.from

\* ------------------------------------------ the engine queried for guides

\* The moving node has at most MaxSiblings siblings.
MaxSiblings == 2

GuideHandles == 1..(MaxSiblings + 1)

\* The rectangles of the nodes guides are computed for: three in a row and
\* three in a column with equal gaps of 20 (the first of each is the same
\* rectangle), a node that contains them all, and a node of no extent.
GuideRects ==
  { Rect(0, 0, 10, 10), Rect(30, 0, 40, 10), Rect(60, 0, 70, 10),
    Rect(0, 30, 10, 40), Rect(0, 60, 10, 70),
    Rect(-10, -10, 100, 100), Rect(30, 30, 30, 30) }

\* The sequences over S of length n.
RECURSIVE SeqsOfLen(_, _)
SeqsOfLen(S, n) ==
  IF n = 0
  THEN {<<>>}
  ELSE { Append(s, x) : s \in SeqsOfLen(S, n - 1), x \in S }

\* The visible lists a host passes: every list of fewer handles than there
\* are, and every list that names each handle once.
VisibleLists ==
  UNION { SeqsOfLen(GuideHandles, n) : n \in 0..MaxSiblings }
    \cup { s \in SeqsOfLen(GuideHandles, MaxSiblings + 1) :
             \A h \in GuideHandles : \E i \in DOMAIN s : s[i] = h }

\* The alignment thresholds a host passes.
Thresholds == {2, 12}

\* The parents a host passes, as <<parent_x, parent_y, parent_width,
\* parent_height>>: none, one around every node, one whose left and top
\* edges are those of the first rectangle, and one without its y.
Parents ==
  { <<<<>>, <<>>, <<>>, <<>>>>,
    <<<<-20>>, <<-20>>, <<140>>, <<140>>>>,
    <<<<0>>, <<0>>, <<70>>, <<70>>>>,
    <<<<0>>, <<>>, <<70>>, <<70>>>> }

\* The record of a guide query: the moving handle, the visible list, the
\* threshold or parent, and the result.
Asked(name, moving_handle, visible_handles, param, result) ==
  [op |-> name, moving |-> moving_handle, visible |-> visible_handles,
   param |-> param, out |-> result]

InitGuides ==
  /\ nodes = new_core.spatial_index.nodes
  /\ grid = new_core.spatial_index.grid
  /\ node_flags = new_core.node_flags
  /\ camera = new_core.camera
  /\ last = Asked("new", 0, <<>>, <<>>, <<>>)
  /\ created = <<>>

\* EditorCore::upsert_node, of the next handle the host allocates.
GuideUpsertNode ==
  \E handle \in GuideHandles, r \in GuideRects :
    /\ handle = get_node_count(Core) + 1
    /\ Becomes(upsert_node(Core, handle, r, 0, 0))
    /\ last' = Asked("upsert", handle, <<>>, <<>>, <<>>)
    /\ created' = CreatedAfterUpsert(handle)

\* A query changes nothing of the engine, so a query made after a query
\* returns what it returns when made first: the queries below are made in
\* the states a constructor or an upsert left.
Settled == last.op \in {"new", "upsert"}

\* EditorCore::calculate_alignment_guides
AlignmentGuides ==
  \E moving_handle \in GuideHandles, visible_handles \in VisibleLists,
     threshold \in Thresholds :
    /\ Settled
    /\ last' = Asked("alignment", moving_handle, visible_handles, threshold,
                     calculate_alignment_guides(Core, moving_handle, visible_handles,
                                                threshold))
    /\ UNCHANGED <<nodes, grid, node_flags, camera, created>>

\* EditorCore::calculate_spacing_guides
SpacingGuides ==
  \E moving_handle \in GuideHandles, visible_handles \in VisibleLists :
    /\ Settled
    /\ last' = Asked("spacing", moving_handle, visible_handles, <<>>,
                     calculate_spacing_guides(Core, moving_handle, visible_handles))
    /\ UNCHANGED <<nodes, grid, node_flags, camera, created>>

\* EditorCore::calculate_distance_measurements
DistanceMeasurements ==
  \E moving_handle \in GuideHandles, visible_handles \in VisibleLists,
     parent \in Parents :
    /\ Settled
    /\ last' = Asked("distance", moving_handle, visible_handles, parent,
                     calculate_distance_measurements(Core, moving_handle,
                       visible_handles, parent[1], parent[2], parent[3], parent[4]))
    /\ UNCHANGED <<nodes, grid, node_flags, camera, created>>

\* The coordinates, thresholds and grid sizes a host passes to snap_point.
SnapCoords == {-4, 9, 31}

SnapThresholds == {-2, 0, 2, 6}

GridSizes == {0, 8}

\* EditorCore::snap_point
SnapPoint ==
  \E world_x \in SnapCoords, world_y \in SnapCoords, snap_threshold \in SnapThresholds,
     grid_size \in GridSizes, enable_grid \in BOOLEAN, enable_objects \in BOOLEAN :
    /\ Settled
    /\ last' = Asked("snap", 0, <<>>,
                     [world_x |-> world_x, world_y |-> world_y,
                      snap_threshold |-> snap_threshold, grid_size |-> grid_size,
                      enable_grid |-> enable_grid, enable_objects |-> enable_objects],
                     snap_point(Core, world_x, world_y, snap_threshold, grid_size,
                                enable_grid, enable_objects))
    /\ UNCHANGED <<nodes, grid, node_flags, camera, created>>

NextGuides ==
  GuideUpsertNode \/ AlignmentGuides \/ SpacingGuides \/ DistanceMeasurements \/ SnapPoint

SpecGuides == InitGuides /\ [][NextGuides]_vars

\* The moving node of the last guide query, and its siblings in the order of
\* the visible list: the visible handles that are live and are not the
\* moving handle.
Moving == nodes[last.moving]

SiblingHandles == SelectSeq(last.visible, LAMBDA h : h \in Live /\ h # last.moving)

Siblings == [i \in 1..Len(SiblingHandles) |-> nodes[SiblingHandles[i]]]

\* The horizontal and the vertical gaps between two distinct siblings, in
\* whatever order the list names them.
HorizontalGaps ==
  { Siblings[j].min_x - Siblings[i].max_x :
      <<i, j>> \in { p \in (DOMAIN Siblings) \X (DOMAIN Siblings) :
                       p[1] # p[2] /\ Siblings[p[2]].min_x > Siblings[p[1]].max_x } }

VerticalGaps ==
  { Siblings[j].min_y - Siblings[i].max_y :
      <<i, j>> \in { p \in (DOMAIN Siblings) \X (DOMAIN Siblings) :
                       p[1] # p[2] /\ Siblings[p[2]].min_y > Siblings[p[1]].max_y } }

\* The guide of the given axis from rectangle a to rectangle b.
GuideBetween(axis, a, b, g) ==
  [guide_type |-> axis,
   from_x |-> a.min_x, from_y |-> a.min_y,
   from_width |-> a.max_x - a.min_x, from_height |-> a.max_y - a.min_y,
   to_x |-> b.min_x, to_y |-> b.min_y,
   to_width |-> b.max_x - b.min_x, to_height |-> b.max_y - b.min_y,
   spacing |-> g]

\* C13: calculate_spacing_guides emits, for every sibling N right of the
\* moving node whose gap to it equals the horizontal gap of some pair of
\* distinct siblings, the guide from the moving node to N with that gap,
\* symmetrically for N left of it, and likewise for vertical gaps, whatever
\* the order of the siblings in the visible list.
C13_SpacingGuidesForEveryPair ==
  (last.op = "spacing" /\ last.moving \in Live) =>
    \A k \in DOMAIN Siblings :
      LET N == Siblings[k]
          M == Moving
      IN  /\ (N.min_x > M.max_x /\ (N.min_x - M.max_x) \in HorizontalGaps)
               => GuideBetween(0, M, N, N.min_x - M.max_x) \in Elems(last.out)
          /\ (M.min_x > N.max_x /\ (M.min_x - N.max_x) \in HorizontalGaps)
               => GuideBetween(0, N, M, M.min_x - N.max_x) \in Elems(last.out)
          /\ (N.min_y > M.max_y /\ (N.min_y - M.max_y) \in VerticalGaps)
               => GuideBetween(1, M, N, N.min_y - M.max_y) \in Elems(last.out)
          /\ (M.min_y > N.max_y /\ (M.min_y - N.max_y) \in VerticalGaps)
               => GuideBetween(1, N, M, M.min_y - N.max_y) \in Elems(last.out)

\* C14: every guide calculate_spacing_guides emits has the gap of some pair
\* of siblings on its axis as its spacing, a spacing that is strictly
\* positive, and runs between the moving node and one sibling across that
\* very gap; with fewer than two siblings no guide is emitted.
C14_SpacingGuidesMatchASiblingGap ==
  (last.op = "spacing" /\ last.moving \in Live) =>
    /\ \A g \in Elems(last.out) :
         /\ g.guide_type \in {0, 1}
         /\ g.guide_type = 0 => g.spacing \in HorizontalGaps
         /\ g.guide_type = 1 => g.spacing \in VerticalGaps
         /\ g.spacing > 0
         /\ \E k \in DOMAIN Siblings :
              LET N == Siblings[k]
                  M == Moving
              IN  \/ g = GuideBetween(0, M, N, N.min_x - M.max_x)
                  \/ g = GuideBetween(0, N, M, M.min_x - N.max_x)
                  \/ g = GuideBetween(1, M, N, N.min_y - M.max_y)
                  \/ g = GuideBetween(1, N, M, M.min_y - N.max_y)
    /\ Len(Siblings) < 2 => last.out = <<>>

\* The moving node is the third of a row with equal gaps: one guide, from
\* the sibling next to it, and none from the sibling farther away.
C14_Witness ==
  /\ last.op = "spacing" /\ last.moving \in Live
  /\ Len(Siblings) = 2
  /\ Len(last.out) = 1
  /\ last.out[1].guide_type = 0
  /\ last.out[1].spacing = 20
  /\ last.out[1].to_x = Moving.min_x /\ last.out[1].from_x = 30

Sides == {"left", "right", "top", "bottom"}

\* Sibling N fully contains the moving node.
ContainsMoving(N) ==
  /\ N.min_x <= Moving.min_x /\ N.min_y <= Moving.min_y
  /\ N.max_x >= Moving.max_x /\ N.max_y >= Moving.max_y

\* Sibling N lies on the given side of the moving node.
OnSide(side, N) ==
  CASE side = "left" -> N.max_x <= Moving.min_x
    [] side = "right" -> N.min_x >= Moving.max_x
    [] side = "top" -> N.max_y <= Moving.min_y
    [] side = "bottom" -> N.min_y >= Moving.max_y

\* The distance from the moving node's edge to the facing edge of N.
SideDistance(side, N) ==
  CASE side = "left" -> Moving.min_x - N.max_x
    [] side = "right" -> N.min_x - Moving.max_x
    [] side = "top" -> Moving.min_y - N.max_y
    [] side = "bottom" -> N.min_y - Moving.max_y

\* The positions in the sibling list of the candidates of a side.
Candidates(side) ==
  { k \in DOMAIN Siblings : ~ContainsMoving(Siblings[k]) /\ OnSide(side, Siblings[k]) }

\* The candidate of minimum distance, the first in the list on a tie.
Nearest(side) ==
  CHOOSE k \in Candidates(side) :
    \A j \in Candidates(side) :
      \/ SideDistance(side, Siblings[k]) < SideDistance(side, Siblings[j])
      \/ SideDistance(side, Siblings[k]) = SideDistance(side, Siblings[j]) /\ k <= j

MovingCenterX == (Moving.min_x + Moving.max_x) \div 2

MovingCenterY == (Moving.min_y + Moving.max_y) \div 2

\* The measurement from the moving node's edge of a side to coordinate e at
\* distance d.
MeasurementTo(side, e, d) ==
  CASE side = "left" ->
         [from_x |-> Moving.min_x, from_y |-> MovingCenterY, to_x |-> e,
          to_y |-> MovingCenterY, direction |-> 0, distance |-> d]
    [] side = "right" ->
         [from_x |-> Moving.max_x, from_y |-> MovingCenterY, to_x |-> e,
          to_y |-> MovingCenterY, direction |-> 0, distance |-> d]
    [] side = "top" ->
         [from_x |-> MovingCenterX, from_y |-> Moving.min_y, to_x |-> MovingCenterX,
          to_y |-> e, direction |-> 1, distance |-> d]
    [] side = "bottom" ->
         [from_x |-> MovingCenterX, from_y |-> Moving.max_y, to_x |-> MovingCenterX,
          to_y |-> e, direction |-> 1, distance |-> d]

\* The facing edge of sibling N on a side.
FacingEdge(side, N) ==
  CASE side = "left" -> N.max_x
    [] side = "right" -> N.min_x
    [] side = "top" -> N.max_y
    [] side = "bottom" -> N.min_y

\* The measurement to the nearest sibling of a side.
SiblingMeasurement(side) ==
  LET N == Siblings[Nearest(side)]
  IN  MeasurementTo(side, FacingEdge(side, N), SideDistance(side, N))

\* The parent of the last distance query, <<>> unless all four components
\* were given.
ParentGiven == \A i \in 1..4 : last.param[i] # <<>>

\* C15: for each side that has a candidate (a sibling on that side that does
\* not contain the moving node), calculate_distance_measurements emits the
\* measurement from the moving node's edge to the facing edge of the
\* nearest candidate, first in input order on ties, with that distance, at
\* the moving node's center_y (horizontal) or center_x (vertical); without a
\* parent these are all the measurements, in the order left, right, top,
\* bottom.
C15_DistanceToNearestSibling ==
  (last.op = "distance" /\ last.moving \in Live) =>
    /\ \A side \in Sides :
         Candidates(side) # {} => SiblingMeasurement(side) \in Elems(last.out)
    /\ \A m \in Elems(last.out) :
         /\ m.direction = 0 => (m.from_y = MovingCenterY /\ m.to_y = MovingCenterY)
         /\ m.direction = 1 => (m.from_x = MovingCenterX /\ m.to_x = MovingCenterX)
    /\ ~ParentGiven =>
         last.out =
           (IF Candidates("left") # {} THEN <<SiblingMeasurement("left")>> ELSE <<>>) \o
           (IF Candidates("right") # {} THEN <<SiblingMeasurement("right")>> ELSE <<>>) \o
           (IF Candidates("top") # {} THEN <<SiblingMeasurement("top")>> ELSE <<>>) \o
           (IF Candidates("bottom") # {} THEN <<SiblingMeasurement("bottom")>> ELSE <<>>)

\* Two siblings left of the moving node, the nearer one second in the
\* visible list: the one measurement goes to the nearer.
C15_Witness ==
  /\ last.op = "distance" /\ last.moving \in Live /\ ~ParentGiven
  /\ Cardinality(Candidates("left")) = 2
  /\ Nearest("left") = 2
  /\ SideDistance("left", Siblings[1]) = 50
  /\ last.out = <<MeasurementTo("left", 40, 20)>>

\* The parent edge of a side: x, x + width, y, y + height.
ParentEdge(side) ==
  CASE side = "left" -> last.param[1][1]
    [] side = "right" -> last.param[1][1] + last.param[3][1]
    [] side = "top" -> last.param[2][1]
    [] side = "bottom" -> last.param[2][1] + last.param[4][1]

\* The distance from the moving node's edge of a side to the parent edge.
ParentDistance(side) ==
  CASE side = "left" -> Moving.min_x - ParentEdge(side)
    [] side = "right" -> ParentEdge(side) - Moving.max_x
    [] side = "top" -> Moving.min_y - ParentEdge(side)
    [] side = "bottom" -> ParentEdge(side) - Moving.max_y

\* What a side contributes: the measurement to its nearest sibling if it
\* has a candidate; otherwise, with a parent, the measurement to the parent
\* edge if that is at a strictly positive distance; otherwise nothing.
SideMeasurements(side) ==
  IF Candidates(side) # {}
  THEN <<SiblingMeasurement(side)>>
  ELSE IF ParentGiven /\ ParentDistance(side) > 0
       THEN <<MeasurementTo(side, ParentEdge(side), ParentDistance(side))>>
       ELSE <<>>

\* C16: a side without a sibling candidate gets a measurement to the parent
\* edge (left x, right x + width, top y, bottom y + height) exactly if all
\* four parent components are given and the distance to that edge is
\* strictly positive; a side with a candidate never uses the parent edge.
C16_ParentEdgeFallback ==
  (last.op = "distance" /\ last.moving \in Live) =>
    /\ last.out = SideMeasurements("left") \o SideMeasurements("right") \o
                  SideMeasurements("top") \o SideMeasurements("bottom")
    /\ \A side \in Sides :
         (Candidates(side) = {} /\ ~ParentGiven) => SideMeasurements(side) = <<>>
    /\ \A side \in Sides :
         (Candidates(side) # {} /\ ParentGiven /\ ParentDistance(side) > 0 /\
          ParentDistance(side) # SideDistance(side, Siblings[Nearest(side)])) =>
           MeasurementTo(side, ParentEdge(side), ParentDistance(side))
             \notin Elems(last.out)

\* With the parent (0, 0, 70, 70) and the moving node in its top left
\* corner: nothing to the left and to the top (distance 0), the sibling to
\* the right, the parent's bottom edge below.
C16_Witness ==
  /\ last.op = "distance" /\ last.moving \in Live
  /\ last.param = <<<<0>>, <<0>>, <<70>>, <<70>>>>
  /\ Moving = NodeData(Rect(0, 0, 10, 10), 0)
  /\ Candidates("right") # {} /\ Candidates("bottom") = {}
  /\ last.out = <<MeasurementTo("right", 30, 20), MeasurementTo("bottom", 70, 60)>>

\* The checks made of sibling N, in the order they are made, each
\* <<coordinate of the moving node, coordinate of N, alignment type>>:
\* axis 0 (vertical guides, x coordinates) and axis 1 (horizontal guides).
AlignmentChecks(axis, N) ==
  IF axis = 0
  THEN << <<Moving.min_x, N.min_x, 0>>,
          <<Moving.max_x, N.max_x, 1>>,
          <<MovingCenterX, (N.min_x + N.max_x) \div 2, 4>>,
          <<Moving.min_x, N.max_x, 0>>,
          <<Moving.max_x, N.min_x, 1>> >>
  ELSE << <<Moving.min_y, N.min_y, 2>>,
          <<Moving.max_y, N.max_y, 3>>,
          <<MovingCenterY, (N.min_y + N.max_y) \div 2, 5>>,
          <<Moving.min_y, N.max_y, 2>>,
          <<Moving.max_y, N.min_y, 3>> >>

\* The matches at position p of an axis: the pairs <<sibling, check>> whose
\* check is made at p and finds the coordinates closer than the threshold.
MatchesAt(axis, p) ==
  { m \in (DOMAIN Siblings) \X (1..5) :
      LET c == AlignmentChecks(axis, Siblings[m[1]])[m[2]]
      IN  c[1] = p /\ Abs(c[1] - c[2]) < last.param }

\* The match recorded first: siblings in list order, checks in their order.
FirstMatch(axis, p) ==
  CHOOSE m \in MatchesAt(axis, p) :
    \A o \in MatchesAt(axis, p) : m[1] < o[1] \/ (m[1] = o[1] /\ m[2] <= o[2])

\* The coordinates of the moving node on an axis.
MovingPositions(axis) ==
  IF axis = 0
  THEN {Moving.min_x, Moving.max_x, MovingCenterX}
  ELSE {Moving.min_y, Moving.max_y, MovingCenterY}

\* C17: calculate_alignment_guides returns exactly one guide for every
\* axis and coordinate of the moving node at which some check against a
\* sibling matches; its node_count is the number of matches at that
\* coordinate over all siblings and checks and its alignment_type is the
\* type of the first of them.
C17_OneAlignmentGuidePerPosition ==
  (last.op = "alignment" /\ last.moving \in Live) =>
    /\ last.out =
         { [guide_type |-> axis, position |-> p,
            alignment_type |->
              AlignmentChecks(axis, Siblings[FirstMatch(axis, p)[1]])[FirstMatch(axis, p)[2]][3],
            node_count |-> Cardinality(MatchesAt(axis, p))] :
           <<axis, p>> \in { ap \in {0, 1} \X (MovingPositions(0) \cup MovingPositions(1)) :
                              /\ ap[2] \in MovingPositions(ap[1])
                              /\ MatchesAt(ap[1], ap[2]) # {} } }
    /\ \A g \in last.out : \A k \in last.out :
         (g.guide_type = k.guide_type /\ g.position = k.position) => g = k

\* A moving node of no width, whose left, right and center_x are one
\* position: the five checks against one sibling all match there, first as
\* a left edge, and give one vertical guide counting five.
C17_Witness ==
  /\ last.op = "alignment" /\ last.moving \in Live
  /\ Moving.min_x = Moving.max_x
  /\ Len(Siblings) = 1
  /\ last.out = {[guide_type |-> 0, position |-> 30, alignment_type |-> 0, node_count |-> 5]}

\* C19: the three guide calculations return an empty list when the moving
\* handle is not live, whatever the visible list and the parent are; with a
\* live moving handle, the visible handles that are not live and the
\* occurrences of the moving handle contribute no sibling: the result is
\* that for the visible list without them.
C19_UnknownHandlesGiveNothing ==
  /\ (last.op = "alignment" /\ last.moving \notin Live) => last.out = {}
  /\ (last.op \in {"spacing", "distance"} /\ last.moving \notin Live) => last.out = <<>>
  /\ (last.op = "alignment" /\ last.moving \in Live) =>
       /\ last.out = calculate_alignment_guides(Core, last.moving, SiblingHandles, last.param)
       /\ Siblings = <<>> => last.out = {}
  /\ (last.op = "spacing" /\ last.moving \in Live) =>
       /\ last.out = calculate_spacing_guides(Core, last.moving, SiblingHandles)
       /\ Siblings = <<>> => last.out = <<>>
  /\ (last.op = "distance" /\ last.moving \in Live) =>
       /\ last.out = calculate_distance_measurements(Core, last.moving, SiblingHandles,
                       last.param[1], last.param[2], last.param[3], last.param[4])
       /\ (Siblings = <<>> /\ ~ParentGiven) => last.out = <<>>

\* Distance measurements asked for a handle that is not live, with two live
\* handles in the visible list and a parent.
C19_Witness ==
  /\ last.op = "distance" /\ last.moving \notin Live
  /\ Cardinality(Elems(last.visible) \cap Live) = 2
  /\ \A i \in 1..4 : last.param[i] # <<>>
  /\ last.out = <<>>

\* The nodes snap_point considers, in the order query_near returns them.
SnapNear ==
  query_near(Index, last.param.world_x, last.param.world_y, last.param.snap_threshold * 3)

\* a / b rounded to the nearest whole number, a half away from zero.
RoundedQuotient(a, b) ==
  CHOOSE q \in (-Abs(a) - 1)..(Abs(a) + 1) :
    /\ 2 * Abs(q * b - a) <= b
    /\ 2 * Abs(q * b - a) = b => Abs(q) * b > Abs(a)

\* The snap candidates of an axis in the order they are tried: the grid
\* line nearest to the coordinate if grid snapping is on and grid_size > 0,
\* then min, center and max of each nearby node if object snapping is on.
SnapCandidates(axis) ==
  LET world == IF axis = 0 THEN last.param.world_x ELSE last.param.world_y
      lo(h) == IF axis = 0 THEN nodes[h].min_x ELSE nodes[h].min_y
      hi(h) == IF axis = 0 THEN nodes[h].max_x ELSE nodes[h].max_y
      g == IF last.param.enable_grid /\ last.param.grid_size > 0
           THEN <<RoundedQuotient(world, last.param.grid_size) * last.param.grid_size>>
           ELSE <<>>
      o == IF last.param.enable_objects
           THEN [i \in 1..(3 * Len(SnapNear)) |->
                   LET h == SnapNear[(i - 1) \div 3 + 1]
                   IN  CASE (i - 1) % 3 = 0 -> lo(h)
                         [] (i - 1) % 3 = 1 -> (lo(h) + hi(h)) \div 2
                         [] (i - 1) % 3 = 2 -> hi(h)]
           ELSE <<>>
  IN  g \o o

\* The positions of the candidates of an axis that match: closer to the
\* coordinate than the threshold.
SnapMatches(axis) ==
  LET world == IF axis = 0 THEN last.param.world_x ELSE last.param.world_y
      c == SnapCandidates(axis)
  IN  { i \in DOMAIN c : Abs(world - c[i]) < last.param.snap_threshold }

\* The coordinate snap_point returns on an axis: the last matching
\* candidate, or the coordinate itself if none matches.
SnappedTo(axis) ==
  IF SnapMatches(axis) = {}
  THEN IF axis = 0 THEN last.param.world_x ELSE last.param.world_y
  ELSE SnapCandidates(axis)[CHOOSE i \in SnapMatches(axis) :
                              \A j \in SnapMatches(axis) : j <= i]

\* C18: snap_point tries the grid first and then min, center and max of
\* each node query_near(world_x, world_y, 3 * threshold) returns, in that
\* order; on each axis it returns the last matching candidate (an object
\* match overwrites a grid match), and guide_count is the number of
\* matching candidates over both axes and both sources.  With a threshold
\* that is not negative, the nodes query_near returns are those that meet
\* the square of half-width 3 * threshold around the point.
C18_SnapLastMatchWins ==
  last.op = "snap" =>
    /\ last.out.x = SnappedTo(0)
    /\ last.out.y = SnappedTo(1)
    /\ last.out.guide_count = Cardinality(SnapMatches(0)) + Cardinality(SnapMatches(1))
    /\ last.param.snap_threshold >= 0 =>
         Elems(SnapNear) =
           { h \in Live :
               Intersects(nodes[h],
                          Rect(last.param.world_x - 3 * last.param.snap_threshold,
                               last.param.world_y - 3 * last.param.snap_threshold,
                               last.param.world_x + 3 * last.param.snap_threshold,
                               last.param.world_y + 3 * last.param.snap_threshold)) }

\* On the x axis the grid line 8 matches and is overwritten by the max edge
\* 10 of a node, after that node's center matched too; two nodes are near.
C18_Witness ==
  /\ last.op = "snap"
  /\ last.param.world_x = 9 /\ last.param.snap_threshold = 6
  /\ last.param.enable_grid /\ last.param.enable_objects /\ last.param.grid_size = 8
  /\ Len(SnapNear) = 2
  /\ SnapCandidates(0)[1] = 8 /\ 1 \in SnapMatches(0)
  /\ Cardinality(SnapMatches(0)) >= 3
  /\ last.out.x = 10
  /\ last.out.guide_count >= 4

\* C20: remove_node (and with it SpatialIndex::remove) of a handle that is
\* not live changes nothing: the node table, every cell list, the flag
\* table and the node count stay as they are.  Every query is a function of
\* these and of the camera, which stays too, so no handle's query results
\* change.
C20_RemoveOfUnknownHandleIsNoOp ==
  [][ (last'.op = "remove" /\ ~last'.live) =>
        /\ nodes' = nodes
        /\ grid' = grid
        /\ node_flags' = node_flags
        /\ camera' = camera
        /\ Cardinality(DOMAIN nodes') = last'.cnt
        /\ \A h \in DOMAIN nodes : h \in DOMAIN nodes' /\ nodes'[h] = nodes[h] ]_vars

\* remove_node of a handle that is not live, beside a live node with flags
\* that covers several cells.
C20_Witness ==
  /\ last.op = "remove" /\ ~last.live
  /\ Cardinality(Live) = 1
  /\ \E h \in Live : h # last.h /\ node_flags[h] # 0
  /\ Cardinality(DOMAIN grid) > 1

\* ------------------------------- the facade with its queries (frame)
\* The operations that change the engine are those of Spec; each query is
\* made in every state they leave and records what it was asked and what it
\* returned.  A query leaves a state that differs from the one it was made
\* in by that record only, so nothing is explored beyond it.

MutatingOps == {"new", "upsert", "remove", "set_camera", "clear"}

QueryOps ==
  {"cull_visible", "hit_test_point", "query_rect", "query_near", "screen_to_world",
   "world_to_screen", "get_node_count", "snap_point", "alignment", "spacing", "distance"}

\* The last operation changed (or constructed) the engine.
Changed == last.op \in MutatingOps

\* center_x and center_y of every live node are whole numbers, so that the
\* halves in snap_point and in the guide calculations are exact.
WholeCenters ==
  \A h \in DOMAIN nodes :
    (nodes[h].min_x + nodes[h].max_x) % 2 = 0 /\ (nodes[h].min_y + nodes[h].max_y) % 2 = 0

\* The points the frame queries are asked at.
FramePoints == {<<0, 0>>, <<100, 100>>, <<300, 256>>}

\* The visible lists the frame's guide queries are asked with.
FrameLists == {<<1, 2>>, <<2, 1, 1>>}

\* EditorCore::cull_visible
CullVisible ==
  /\ Changed
  /\ last' = Asked("cull_visible", 0, <<>>, <<>>, cull_visible(Core))
  /\ UNCHANGED <<nodes, grid, node_flags, camera, created>>

\* EditorCore::hit_test_point
HitTestPoint ==
  \E p \in FramePoints :
    /\ Changed
    /\ last' = Asked("hit_test_point", 0, <<>>, p, hit_test_point(Core, p[1], p[2]))
    /\ UNCHANGED <<nodes, grid, node_flags, camera, created>>

\* EditorCore::query_rect
QueryRect ==
  \E q \in {Rect(50, 50, 100, 100), Rect(-1, -1, 512, 512)} :
    /\ Changed
    /\ last' = Asked("query_rect", 0, <<>>, q,
                     core_query_rect(Core, q.min_x, q.min_y, q.max_x, q.max_y))
    /\ UNCHANGED <<nodes, grid, node_flags, camera, created>>

\* EditorCore::query_near
QueryNear ==
  \E p \in FramePoints :
    /\ Changed
    /\ last' = Asked("query_near", 0, <<>>, p, core_query_near(Core, p[1], p[2], 6))
    /\ UNCHANGED <<nodes, grid, node_flags, camera, created>>

\* EditorCore::screen_to_world
ScreenToWorld ==
  \E p \in {<<0, 0>>, <<400, 300>>} :
    /\ Changed
    /\ last' = Asked("screen_to_world", 0, <<>>, p,
                     core_screen_to_world(Core, p[1], p[2]))
    /\ UNCHANGED <<nodes, grid, node_flags, camera, created>>

\* EditorCore::world_to_screen
WorldToScreen ==
  \E p \in FramePoints :
    /\ Changed
    /\ last' = Asked("world_to_screen", 0, <<>>, p,
                     core_world_to_screen(Core, p[1], p[2]))
    /\ UNCHANGED <<nodes, grid, node_flags, camera, created>>

\* EditorCore::get_node_count
GetNodeCount ==
  /\ Changed
  /\ last' = Asked("get_node_count", 0, <<>>, <<>>, get_node_count(Core))
  /\ UNCHANGED <<nodes, grid, node_flags, camera, created>>

\* EditorCore::snap_point
FrameSnapPoint ==
  \E p \in FramePoints, enable_grid \in BOOLEAN :
    /\ Changed
    /\ WholeCenters
    /\ last' = Asked("snap_point", 0, <<>>, <<p, enable_grid>>,
                     snap_point(Core, p[1], p[2], 2, 8, enable_grid, TRUE))
    /\ UNCHANGED <<nodes, grid, node_flags, camera, created>>

\* EditorCore::calculate_alignment_guides
FrameAlignmentGuides ==
  \E moving_handle \in Handles, visible_handles \in FrameLists :
    /\ Changed
    /\ WholeCenters
    /\ last' = Asked("alignment", moving_handle, visible_handles, 2,
                     calculate_alignment_guides(Core, moving_handle, visible_handles, 2))
    /\ UNCHANGED <<nodes, grid, node_flags, camera, created>>

\* EditorCore::calculate_spacing_guides
FrameSpacingGuides ==
  \E moving_handle \in Handles, visible_handles \in FrameLists :
    /\ Changed
    /\ WholeCenters
    /\ last' = Asked("spacing", moving_handle, visible_handles, <<>>,
                     calculate_spacing_guides(Core, moving_handle, visible_handles))
    /\ UNCHANGED <<nodes, grid, node_flags, camera, created>>

\* EditorCore::calculate_distance_measurements
FrameDistanceMeasurements ==
  \E moving_handle \in Handles, visible_handles \in FrameLists :
    /\ Changed
    /\ WholeCenters
    /\ last' = Asked("distance", moving_handle, visible_handles, <<0, 0, 600, 300>>,
                     calculate_distance_measurements(Core, moving_handle, visible_handles,
                                                     <<0>>, <<0>>, <<600>>, <<300>>))
    /\ UNCHANGED <<nodes, grid, node_flags, camera, created>>

NextFrame ==
  \/ Changed /\ UpsertNode
  \/ Changed /\ RemoveNode
  \/ Changed /\ SetCamera
  \/ Changed /\ Clear
  \/ CullVisible
  \/ HitTestPoint
  \/ QueryRect
  \/ QueryNear
  \/ ScreenToWorld
  \/ WorldToScreen
  \/ GetNodeCount
  \/ FrameSnapPoint
  \/ FrameAlignmentGuides
  \/ FrameSpacingGuides
  \/ FrameDistanceMeasurements

SpecFrame == Init /\ [][NextFrame]_vars

\* ---------------------------------------------------------------- C21
\* The cells whose list holds handle h.
CellsListing(g, h) == { c \in DOMAIN g : h \in Elems(g[c]) }

\* What the engine holds about handle h: whether it is live, its bounds and
\* z_index, its flags, and the cells that list it.
HeldAbout(n, g, f, h) ==
  <<IF h \in DOMAIN n THEN <<n[h]>> ELSE <<>>,
    IF h \in DOMAIN f THEN <<f[h]>> ELSE <<>>,
    CellsListing(g, h)>>

\* C21: set_camera changes nothing but the camera (node table, grid and
\* flag table stay); upsert_node, remove_node and clear leave the camera as
\* it is; upsert_node(h) and remove_node(h) leave the bounds, z_index, flags
\* and cell memberships of every other handle as they are; and every query
\* (cull_visible, hit_test_point, query_rect, query_near, snap_point, the
\* three guide calculations, get_node_count, the two coordinate conversions)
\* leaves the whole engine state as it is.
C21_FrameConditions ==
  [][ /\ last'.op = "set_camera" =>
           nodes' = nodes /\ grid' = grid /\ node_flags' = node_flags
      /\ last'.op \in {"upsert", "remove", "clear"} => camera' = camera
      /\ last'.op \in {"upsert", "remove"} =>
           \A h \in Handles \ {last'.h} :
             HeldAbout(nodes', grid', node_flags', h) = HeldAbout(nodes, grid, node_flags, h)
      /\ last'.op \in QueryOps =>
           nodes' = nodes /\ grid' = grid /\ node_flags' = node_flags /\ camera' = camera
    ]_vars

\* upsert_node has moved a live node to the rectangle of another live node,
\* which has flags set, under a camera that is not the default one: the two
\* now share every cell, and the other node is held as before.
C21_Witness ==
  /\ last.op = "upsert" /\ last.live /\ ~last.same
  /\ camera # new_camera
  /\ \E h \in DOMAIN nodes \ {last.h} :
       /\ node_flags[h] # 0
       /\ nodes[h].min_x = last.arg.min_x /\ nodes[h].max_x = last.arg.max_x
       /\ CellsListing(grid, h) = CellsListing(grid, last.h)
       /\ Cardinality(CellsListing(grid, h)) > 1

\* ---------------------------------------------------------------- C22
\* snap_point was asked, and answered with last.out.
Snapped == last.op = "snap"

\* Snapping cannot happen: the threshold is not positive, or both kinds of
\* snapping are switched off.
SnapDisabled ==
  \/ last.param.snap_threshold <= 0
  \/ ~last.param.enable_grid /\ ~last.param.enable_objects

\* C22: in the result of snap_point, snapped is true exactly if
\* guide_count > 0; on each axis the returned coordinate is the input
\* coordinate or differs from it by strictly less than snap_threshold; and
\* with snap_threshold <= 0, or with grid and object snapping both off, the
\* result is (snapped = false, x = world_x, y = world_y, guide_count = 0).
C22_SnapResultWithinThreshold ==
  Snapped =>
    /\ last.out.snapped <=> last.out.guide_count > 0
    /\ \/ last.out.x = last.param.world_x
       \/ Abs(last.out.x - last.param.world_x) < last.param.snap_threshold
    /\ \/ last.out.y = last.param.world_y
       \/ Abs(last.out.y - last.param.world_y) < last.param.snap_threshold
    /\ SnapDisabled =>
         last.out = SnapResult(FALSE, last.param.world_x, last.param.world_y, 0)

\* snap_point at (9, -4) with threshold 6 and both kinds of snapping on,
\* beside a node whose top edge is at exactly the threshold from the point:
\* both coordinates are snapped to the grid lines, which are nearer than the
\* threshold, and y is not snapped to the edge at the threshold.
C22_Witness ==
  /\ Snapped
  /\ last.param.snap_threshold = 6 /\ last.param.grid_size = 8
  /\ last.param.enable_grid /\ last.param.enable_objects
  /\ last.param.world_x = 9 /\ last.param.world_y = -4
  /\ \E h \in DOMAIN nodes : nodes[h].min_y = -10
  /\ last.out.snapped /\ last.out.guide_count = 2
  /\ last.out.x = 8 /\ last.out.y = -8
====
